---- MODULE Spec2Model ----
(***************************************************************************)
(* A model of the write path and the version management of pebble:         *)
(*   src/version_set.go  versionSet: load, logAndApply, createManifest,    *)
(*                       nextFileNum, markFileNumUsed, append,             *)
(*                       currentVersion, addLiveFileNums                   *)
(*   src/db.go           DB: Get, commitWrite, commitApply, commitSync,    *)
(*                       makeRoomForWrite, writeLevel0Table                *)
(* The commit pipeline, the memtable, the flush job, version.ref/unref,    *)
(* the version edit codec and the garbage collector are not among the      *)
(* source files; they are modelled from spec.md (sections 4.3-4.7).        *)
(*                                                                         *)
(* Two specifications share the variables and the version set's actions:   *)
(*   SpecVS  the version set driven by arbitrary version edits, with I/O   *)
(*           failures, readers that pin versions, file GC, crash and load; *)
(*   Spec    the DB: committers, memtable rotation, flush, Get, crash and  *)
(*           recovery.                                                     *)
(***************************************************************************)
EXTENDS Integers, Sequences, FiniteSets, TLC

(***************************************************************************)
(* Bounds of the model.                                                    *)
(***************************************************************************)
\* File numbers are handed out while next_file_number is below this.
MaxFileNum == 6
\* Crashes per behaviour of SpecVS.
MaxCrashes == 1
\* Injected I/O failures per behaviour of SpecVS.
MaxFailures == 1
\* Readers (Get calls in flight).
NumReaders == 1

Readers == 1..NumReaders
\* The levels edits add tables at: tables are written at level 0
\* (writeLevel0Table).
Levels == {0}

VARIABLES
  \* ---- versionSet (src/version_set.go:19-39)
  versions,            \* versions: the list, oldest first, of [id, files, refs]
  logNumber,
  prevLogNumber,
  nextFileNumber,
  logSeqNum,
  visibleSeqNum,
  manifestFileNumber,
  manifest,            \* vs.manifest: "nil", "open", or "failed" (the writer keeps an error)
  \* ---- the directory
  current,             \* CURRENT: the number of the manifest it names
  manifests,           \* manifest files: number -> [recs, written, synced]
  tables,              \* table files: number -> the records the table holds
  \* ---- DB.mu (src/db.go:116-148)
  mu,                  \* the holder of the DB mutex, or "none"
  logNum,              \* d.mu.log.number
  pendingOutputs,      \* d.mu.compact.pendingOutputs
  \* ---- activations
  la,                  \* the running logAndApply call
  job,                 \* the job that writes a table and logs the edit (SpecVS)
  readers,             \* Get calls: the version each one references
  \* ---- the process
  phase,               \* "closed", "running", "crashed", "panicked", "loadFailed"
  nextVid,             \* identity of the next version object
  crashes,
  failures,
  handedOut,           \* history: the numbers nextFileNum returned since load
  crashAt,             \* history: where in logAndApply the last crash hit
  \* ---- DB.mu.mem, DB.mu.log, DB.mu.compact and the commit pipeline (Spec)
  mem,                 \* memtables: log number -> [applied, reserved, refs]
  queue,               \* d.mu.mem.queue: log numbers, the mutable memtable last
  switching,           \* d.mu.mem.switching
  wal,                 \* WAL files: number -> [recs, synced, closed]
  flushing,            \* d.mu.compact.flushing
  fl,                  \* the flush job
  com,                 \* committers: the Commit call each one runs
  allocated,           \* history: the batches that got a seqnum range
  applied,             \* the batches (by base seqnum) whose commitApply finished
  returned,            \* history: the batches whose Commit returned nil
  recovered,           \* the seqnums recovery reproduced
  \* ---- DB.Close (src/db.go:386-401)
  closed,              \* d.mu.closed
  closeCount,          \* history: how often Close closed each of the four handles
  closer,              \* Close calls: where each one is
  \* ---- a block and a blockIter over it (src/sstable/block.go)
  block,               \* the entries added, the restart interval, the bytes of finish()
  iter,                \* the blockIter, with the byte arrays its slices point into
  scan                 \* the calls made on the iterator and the entries they gave

vsVars == <<versions, logNumber, prevLogNumber, nextFileNumber, logSeqNum,
            visibleSeqNum, manifestFileNumber, manifest>>
diskVars == <<current, manifests, tables>>
vars == <<versions, logNumber, prevLogNumber, nextFileNumber, logSeqNum,
          visibleSeqNum, manifestFileNumber, manifest, current, manifests,
          tables, mu, logNum, pendingOutputs, la, job, readers, phase,
          nextVid, crashes, failures, handedOut, crashAt, mem, queue, switching, wal,
          flushing, fl, com, allocated, applied, returned, recovered, closed,
          closeCount, closer, block, iter, scan>>
dbVars == <<mem, queue, switching, wal, flushing, fl, com, allocated, applied,
            returned, recovered, closed, closeCount, closer>>
closeVars == <<closed, closeCount, closer>>
blockVars == <<block, iter, scan>>

\* No block was built and no blockIter made.
noBlock == block = <<>> /\ iter = <<>> /\ scan = <<>>

(***************************************************************************)
(* Version edits and their replay.                                         *)
(***************************************************************************)
\* A versionEdit; 0 is "unset" for the four numbers, as in the source.
versionEdit(ln, nf, df) ==
  [logNumber |-> ln, prevLogNumber |-> 0, nextFileNumber |-> 0,
   lastSequence |-> 0, newFiles |-> nf, deletedFiles |-> df]

NoEdit == versionEdit(0, {}, {})

\* bulkVersionEdit.accumulate followed by apply, on a set of (level, fileNum).
bveApply(files, ve) == (files \ ve.deletedFiles) \cup ve.newFiles

\* versionSet.markFileNumUsed: the next file number it leaves.
markFileNumUsed(nfn, fileNum) == IF nfn <= fileNum THEN fileNum + 1 ELSE nfn

\* Mutant of nextFileNum: the next file number is not advanced.
nextFileNumStuck(nfn) == [x |-> nfn, next |-> nfn]

\* versionSet.nextFileNum: the number returned and the next file number.
nextFileNum(nfn) == [x |-> nfn, next |-> nfn + 1]

\* The loop of versionSet.load over the records of the manifest.
RECURSIVE loadReplay(_, _)
loadReplay(s, recs) ==
  IF recs = <<>> THEN s
  ELSE LET ve == Head(recs) IN
       loadReplay(
         [files |-> bveApply(s.files, ve),
          logNumber |-> IF ve.logNumber # 0 THEN ve.logNumber ELSE s.logNumber,
          prevLogNumber |-> IF ve.prevLogNumber # 0 THEN ve.prevLogNumber
                            ELSE s.prevLogNumber,
          nextFileNumber |-> IF ve.nextFileNumber # 0 THEN ve.nextFileNumber
                             ELSE s.nextFileNumber,
          logSeqNum |-> IF ve.lastSequence # 0 THEN ve.lastSequence
                        ELSE s.logSeqNum],
         Tail(recs))

\* What load reads: the records of the manifest CURRENT names that are in the
\* file (the writer's buffer is not).
manifestRecords(n) == SubSeq(manifests[n].recs, 1, manifests[n].written)

\* Mutant of currentManifest: load takes the newest manifest of the directory.
newestManifest ==
  CHOOSE n \in DOMAIN manifests : \A k \in DOMAIN manifests : k <= n

\* Lines 52-81 of load: the manifest the CURRENT file names.
currentManifest == current

\* The state load replays: a fresh versionSet with nextFileNumber = 2.
loadState(n) ==
  loadReplay([files |-> {}, logNumber |-> 0, prevLogNumber |-> 0,
              nextFileNumber |-> 2, logSeqNum |-> 0],
             manifestRecords(n))

\* load's check of the replayed manifest (version_set.go:121-127).
loadIncomplete(s) ==
  (s.logNumber = 0 \/ s.nextFileNumber = 0) /\ s.nextFileNumber # 2

\* versionSet.currentVersion
currentVersion == versions[Len(versions)]

\* version.unref / unrefLocked on the i-th version of the list: a version
\* whose count reaches zero is unlinked.
unrefAt(vl, i) ==
  IF vl[i].refs = 1
  THEN SubSeq(vl, 1, i - 1) \o SubSeq(vl, i + 1, Len(vl))
  ELSE [vl EXCEPT ![i].refs = @ - 1]

\* Mutant of append: the previous current version keeps the list's reference.
appendKeepPrev(vl, v) == Append(vl, [v EXCEPT !.refs = @ + 1])

\* versionSet.append, for a version with refs = 0.
append(vl, v) ==
  LET vl1 == IF vl # <<>> THEN unrefAt(vl, Len(vl)) ELSE vl
  IN  Append(vl1, [v EXCEPT !.refs = @ + 1])

\* Mutant of addLiveFileNums: only the current version's files are live.
addLiveFileNumsCurrent(vl) ==
  IF vl = <<>> THEN {} ELSE {f[2] : f \in vl[Len(vl)].files}

\* versionSet.addLiveFileNums: the file numbers of every version of the list.
addLiveFileNums(vl) ==
  {f[2] : f \in UNION {vl[i].files : i \in 1..Len(vl)}}

\* The index in the list of the version with identity id, 0 if unlinked.
indexOf(vl, id) ==
  IF \E i \in 1..Len(vl) : vl[i].id = id
  THEN CHOOSE i \in 1..Len(vl) : vl[i].id = id
  ELSE 0

(***************************************************************************)
(* The initial state: a directory as created for a new DB (CURRENT names   *)
(* MANIFEST-1, whose one record sets next_file_number = 2), not yet loaded.*)
(***************************************************************************)
\* What Close closes (db.go:395-398): d.tableCache, d.mu.log, d.fileLock,
\* d.commit.
Handles == {"tableCache", "log", "fileLock", "commit"}

\* Goroutines that call Close.
NumClosers == 2
Closers == 1..NumClosers

laIdle == [pc |-> "idle", ve |-> NoEdit, newVersion |-> {}, err |-> FALSE]
jobIdle == [pc |-> "idle", fileNum |-> 0]
readerIdle == [pc |-> "idle", version |-> 0, snapshot |-> 0, memtables |-> <<>>,
               seen |-> {}]
flIdle == [pc |-> "idle", mem |-> 0, fileNum |-> 0, err |-> FALSE, meta |-> 0]
noCrash == [pc |-> "idle", newFiles |-> {}, named |-> FALSE]

InitMemory ==
  /\ versions = <<>>
  /\ logNumber = 0
  /\ prevLogNumber = 0
  /\ nextFileNumber = 0
  /\ logSeqNum = 0
  /\ visibleSeqNum = 0
  /\ manifestFileNumber = 0
  /\ manifest = "nil"
  /\ mu = "none"
  /\ logNum = 0
  /\ pendingOutputs = {}
  /\ la = laIdle
  /\ job = jobIdle
  /\ readers = [r \in Readers |-> readerIdle]
  /\ nextVid = 1
  /\ handedOut = {}
  /\ mem = <<>>
  /\ queue = <<>>
  /\ switching = FALSE
  /\ flushing = FALSE
  /\ fl = flIdle
  /\ closed = FALSE
  /\ closeCount = [h \in Handles |-> 0]
  /\ closer = [c \in Closers |-> "idle"]

\* The memory of a process that starts: what InitMemory says, of the next state.
ResetMemory ==
  /\ versions' = <<>>
  /\ logNumber' = 0
  /\ prevLogNumber' = 0
  /\ nextFileNumber' = 0
  /\ logSeqNum' = 0
  /\ visibleSeqNum' = 0
  /\ manifestFileNumber' = 0
  /\ manifest' = "nil"
  /\ mu' = "none"
  /\ logNum' = 0
  /\ pendingOutputs' = {}
  /\ la' = laIdle
  /\ job' = jobIdle
  /\ readers' = [r \in Readers |-> readerIdle]
  /\ nextVid' = 1
  /\ handedOut' = {}
  /\ mem' = <<>>
  /\ queue' = <<>>
  /\ switching' = FALSE
  /\ flushing' = FALSE
  /\ fl' = flIdle
  /\ closed' = FALSE
  /\ closeCount' = [h \in Handles |-> 0]
  /\ closer' = [c \in Closers |-> "idle"]

InitDisk ==
  /\ current = 1
  /\ manifests = (1 :> [recs |-> <<[NoEdit EXCEPT !.nextFileNumber = 2]>>,
                        written |-> 1, synced |-> 1])
  /\ tables = <<>>
  /\ wal = <<>>

InitVS ==
  /\ noBlock
  /\ InitMemory
  /\ InitDisk
  /\ phase = "closed"
  /\ crashAt = noCrash
  /\ crashes = 0
  /\ failures = 0
  /\ com = <<>>
  /\ allocated = {}
  /\ applied = {}
  /\ returned = {}
  /\ recovered = {}

(***************************************************************************)
(* versionSet.load (version_set.go:42-138): replay the manifest CURRENT    *)
(* names into a fresh versionSet.  ok is the phase of a successful load;    *)
(* the caller says what recovery reproduces (recovered).                   *)
(***************************************************************************)
load(ok) ==
  /\ phase \in {"closed", "crashed"}
  /\ crashAt' = noCrash
  /\ LET s  == loadState(currentManifest)
         n1 == markFileNumUsed(s.nextFileNumber, s.logNumber)
         n2 == markFileNumUsed(n1, s.prevLogNumber)
         m  == nextFileNum(n2)
     IN  IF loadIncomplete(s)
         THEN /\ phase' = "loadFailed"
              /\ UNCHANGED <<versions, logNumber, prevLogNumber, nextFileNumber,
                             logSeqNum, manifestFileNumber, nextVid, handedOut>>
         ELSE /\ phase' = ok
              /\ logNumber' = s.logNumber
              /\ prevLogNumber' = s.prevLogNumber
              /\ logSeqNum' = s.logSeqNum
              /\ manifestFileNumber' = m.x
              /\ nextFileNumber' = m.next
              /\ handedOut' = {m.x}
              /\ versions' = append(<<>>, [id |-> nextVid, files |-> s.files,
                                           refs |-> 0])
              /\ nextVid' = nextVid + 1
  /\ UNCHANGED <<visibleSeqNum, manifest, diskVars, wal, mu, logNum,
                 pendingOutputs, la, job, readers, crashes, failures, mem,
                 queue, switching, flushing, fl, com, allocated, applied,
                 returned, closeVars, blockVars>>

(***************************************************************************)
(* versionSet.logAndApply (version_set.go:146-194), one action per step    *)
(* that a crash or an error can separate.  The caller holds DB.mu.         *)
(***************************************************************************)
\* An injected I/O error.
Fails == failures < MaxFailures /\ failures' = failures + 1
NoFailure == failures' = failures

laReturn(e) == la' = [la EXCEPT !.pc = "ret", !.err = e]

\* Mutant of logNumberInconsistent: only the lower bound is checked.
logNumberBelow(ve) == ve.logNumber # 0 /\ ve.logNumber < logNumber

\* Lines 147-149: the edit's log number is set and outside
\* [vs.logNumber, vs.nextFileNumber).
logNumberInconsistent(ve) ==
  ve.logNumber # 0
  /\ (ve.logNumber < logNumber \/ nextFileNumber <= ve.logNumber)

\* Lines 147-160: validate the log number, stamp the edit, apply it to the
\* current version.  Constrains la, phase and failures; la.ve is the edit of
\* the call, also when the call panics.
logAndApplyEnter(ve) ==
  IF logNumberInconsistent(ve)
  THEN /\ phase' = "panicked"
       /\ la' = [la EXCEPT !.ve = ve]
       /\ NoFailure
  ELSE /\ phase' = phase
       /\ LET ve1 == [ve EXCEPT !.nextFileNumber = nextFileNumber,
                                !.lastSequence = logSeqNum]
          IN  \/ /\ la' = [pc |-> "manifest", ve |-> ve1, err |-> FALSE,
                           newVersion |-> bveApply(currentVersion.files, ve1)]
                 /\ NoFailure
              \/ /\ Fails
                 /\ la' = [pc |-> "ret", ve |-> ve1, err |-> TRUE,
                           newVersion |-> {}]

\* Mutant of createManifest: after an error the file stays on disk and the
\* version set keeps the writer.
createManifestKeeps ==
  \/ /\ manifests' = [n \in DOMAIN manifests \cup {manifestFileNumber} |->
                        IF n = manifestFileNumber
                        THEN [recs |-> <<versionEdit(0, currentVersion.files, {})>>,
                              written |-> 0, synced |-> 0]
                        ELSE manifests[n]]
     /\ manifest' = "open"
     /\ la' = [la EXCEPT !.pc = "next"]
     /\ NoFailure
  \/ /\ Fails
     /\ manifests' = [n \in DOMAIN manifests \cup {manifestFileNumber} |->
                        IF n = manifestFileNumber
                        THEN [recs |-> <<>>, written |-> 0, synced |-> 0]
                        ELSE manifests[n]]
     /\ manifest' = "failed"
     /\ laReturn(TRUE)

\* createManifest (version_set.go:197-245): the file is created (truncated)
\* and the snapshot edit goes to the writer; on an error the file is removed.
createManifest ==
  \/ /\ manifests' = [n \in DOMAIN manifests \cup {manifestFileNumber} |->
                        IF n = manifestFileNumber
                        THEN [recs |-> <<versionEdit(0, currentVersion.files, {})>>,
                              written |-> 0, synced |-> 0]
                        ELSE manifests[n]]
     /\ manifest' = "open"
     /\ la' = [la EXCEPT !.pc = "next"]
     /\ NoFailure
  \/ /\ Fails
     /\ manifests' = [n \in DOMAIN manifests \ {manifestFileNumber} |->
                        manifests[n]]
     /\ manifest' = manifest
     /\ laReturn(TRUE)

\* Lines 162-166.
LACreateManifest ==
  /\ phase = "running"
  /\ la.pc = "manifest"
  /\ IF manifest = "nil"
     THEN createManifest
     ELSE /\ la' = [la EXCEPT !.pc = "next"]
          /\ UNCHANGED <<manifests, manifest, failures>>
  /\ UNCHANGED <<versions, logNumber, prevLogNumber, nextFileNumber, logSeqNum,
                 visibleSeqNum, manifestFileNumber, current, tables, wal, mu,
                 logNum, pendingOutputs, job, readers, phase, nextVid, crashes,
                 handedOut, crashAt, mem, queue, switching, flushing, fl, com, allocated,
                 applied, returned, recovered,
                 closeVars, blockVars>>

\* Lines 168-174: manifest.Next and ve.encode put the record into the writer.
\* A record.Writer keeps its first error: once it failed, Next fails.
LAAppend ==
  /\ phase = "running"
  /\ la.pc = "next"
  /\ \/ /\ manifest = "open"
        /\ manifests' = [manifests EXCEPT
                           ![manifestFileNumber].recs = Append(@, la.ve)]
        /\ la' = [la EXCEPT !.pc = "flush"]
        /\ manifest' = manifest
        /\ NoFailure
     \/ /\ manifest = "open"
        /\ Fails
        /\ manifest' = "failed"
        /\ manifests' = manifests
        /\ laReturn(TRUE)
     \/ /\ manifest = "failed"
        /\ manifest' = manifest
        /\ manifests' = manifests
        /\ NoFailure
        /\ laReturn(TRUE)
  /\ UNCHANGED <<versions, logNumber, prevLogNumber, nextFileNumber, logSeqNum,
                 visibleSeqNum, manifestFileNumber, current, tables, wal, mu,
                 logNum, pendingOutputs, job, readers, phase, nextVid, crashes,
                 handedOut, crashAt, mem, queue, switching, flushing, fl, com, allocated,
                 applied, returned, recovered,
                 closeVars, blockVars>>

\* Lines 175-177: manifest.Flush writes the writer's records to the file.
LAFlush ==
  /\ phase = "running"
  /\ la.pc = "flush"
  /\ \/ /\ manifests' = [manifests EXCEPT
                           ![manifestFileNumber] =
                             [@ EXCEPT !.written =
                                Len(manifests[manifestFileNumber].recs)]]
        /\ la' = [la EXCEPT !.pc = "sync"]
        /\ manifest' = manifest
        /\ NoFailure
     \/ /\ Fails
        /\ manifest' = "failed"
        /\ manifests' = manifests
        /\ laReturn(TRUE)
  /\ UNCHANGED <<versions, logNumber, prevLogNumber, nextFileNumber, logSeqNum,
                 visibleSeqNum, manifestFileNumber, current, tables, wal, mu,
                 logNum, pendingOutputs, job, readers, phase, nextVid, crashes,
                 handedOut, crashAt, mem, queue, switching, flushing, fl, com, allocated,
                 applied, returned, recovered,
                 closeVars, blockVars>>

\* Mutant of LASync: the manifest file is not synced before CURRENT is set.
LASyncSkipped ==
  /\ phase = "running"
  /\ la.pc = "sync"
  /\ la' = [la EXCEPT !.pc = "setcurrent"]
  /\ UNCHANGED <<vsVars, diskVars, wal, mu, logNum, pendingOutputs, job,
                 readers, phase, nextVid, crashes, failures, handedOut, crashAt,
                 dbVars, blockVars>>

\* Lines 178-180: manifestFile.Sync makes what the file holds durable.
LASync ==
  /\ phase = "running"
  /\ la.pc = "sync"
  /\ \/ /\ manifests' = [manifests EXCEPT
                           ![manifestFileNumber] =
                             [@ EXCEPT !.synced =
                                manifests[manifestFileNumber].written]]
        /\ la' = [la EXCEPT !.pc = "setcurrent"]
        /\ NoFailure
     \/ /\ Fails
        /\ manifests' = manifests
        /\ laReturn(TRUE)
  /\ UNCHANGED <<versions, logNumber, prevLogNumber, nextFileNumber, logSeqNum,
                 visibleSeqNum, manifestFileNumber, manifest, current, tables,
                 wal, mu, logNum, pendingOutputs, job, readers, phase, nextVid,
                 crashes, handedOut, crashAt, mem, queue, switching, flushing, fl, com,
                 allocated, applied, returned, recovered,
                 closeVars, blockVars>>

\* Lines 181-183: setCurrentFile renames a temporary file to CURRENT.
LASetCurrent ==
  /\ phase = "running"
  /\ la.pc = "setcurrent"
  /\ \/ /\ current' = manifestFileNumber
        /\ la' = [la EXCEPT !.pc = "install"]
        /\ NoFailure
     \/ /\ Fails
        /\ current' = current
        /\ laReturn(TRUE)
  /\ UNCHANGED <<versions, logNumber, prevLogNumber, nextFileNumber, logSeqNum,
                 visibleSeqNum, manifestFileNumber, manifest, manifests, tables,
                 wal, mu, logNum, pendingOutputs, job, readers, phase, nextVid,
                 crashes, handedOut, crashAt, mem, queue, switching, flushing, fl, com,
                 allocated, applied, returned, recovered,
                 closeVars, blockVars>>

\* Lines 185-193: install the new version, take the edit's log numbers.
LAInstall ==
  /\ phase = "running"
  /\ la.pc = "install"
  /\ versions' = append(versions, [id |-> nextVid, files |-> la.newVersion,
                                   refs |-> 0])
  /\ nextVid' = nextVid + 1
  /\ logNumber' = IF la.ve.logNumber # 0 THEN la.ve.logNumber ELSE logNumber
  /\ prevLogNumber' = IF la.ve.prevLogNumber # 0 THEN la.ve.prevLogNumber
                      ELSE prevLogNumber
  /\ laReturn(FALSE)
  /\ UNCHANGED <<nextFileNumber, logSeqNum, visibleSeqNum, manifestFileNumber,
                 manifest, diskVars, wal, mu, logNum, pendingOutputs, job,
                 readers, phase, crashes, failures, handedOut, crashAt, mem, queue,
                 switching, flushing, fl, com, allocated, applied, returned,
                 recovered,
                 closeVars, blockVars>>

logAndApply ==
  \/ LACreateManifest
  \/ LAAppend
  \/ LAFlush
  \/ LASync
  \/ LASetCurrent
  \/ LAInstall

(***************************************************************************)
(* DB.Get (db.go:159-187).                                                 *)
(***************************************************************************)
\* Mutant of captureMemtables: Get looks into the mutable memtable only.
captureMutable == <<queue[Len(queue)]>>

\* db.go:168: memtables := d.mu.mem.queue
captureMemtables == queue

\* Mutant of getSnapshot: Get reads up to the last allocated seqnum.
getSnapshotAllocated == logSeqNum

\* db.go:161: snapshot := atomic.LoadUint64(&d.mu.versions.visibleSeqNum)
getSnapshot == visibleSeqNum

\* Mutant of refCaptured: Get takes a reference on every memtable of the
\* queue it captures.
refCapturedBump(ms, q) ==
  [n \in DOMAIN ms |->
     IF \E j \in 1..Len(q) : q[j] = n
     THEN [ms[n] EXCEPT !.refs = @ + 1] ELSE ms[n]]

\* db.go:168: the queue slice is copied; no memtable of it is referenced
\* (the only ref of Get is current.ref(), db.go:166).
refCaptured(ms, q) == ms

\* Lines 160-169: under DB.mu, capture the visible seqnum, reference the
\* current version, capture the memtable queue.
GetCapture(r) ==
  /\ phase = "running"
  /\ mu = "none"
  /\ readers[r].pc = "idle"
  /\ readers' = [readers EXCEPT ![r] =
                   [pc |-> "reading", version |-> currentVersion.id,
                    snapshot |-> getSnapshot, memtables |-> captureMemtables,
                    seen |-> returned]]
  /\ versions' = [versions EXCEPT ![Len(versions)].refs = @ + 1]
  /\ mem' = refCaptured(mem, captureMemtables)
  /\ UNCHANGED <<logNumber, prevLogNumber, nextFileNumber, logSeqNum,
                 visibleSeqNum, manifestFileNumber, manifest, diskVars, wal, mu,
                 logNum, pendingOutputs, la, job, phase, nextVid, crashes,
                 failures, handedOut, crashAt, queue, switching, flushing, fl, com,
                 allocated, applied, returned, recovered,
                 closeVars, blockVars>>

\* Lines 171-186 and the deferred current.unref(), without DB.mu.
GetReturn(r) ==
  /\ phase = "running"
  /\ readers[r].pc = "reading"
  /\ versions' = unrefAt(versions, indexOf(versions, readers[r].version))
  /\ readers' = [readers EXCEPT ![r] = readerIdle]
  /\ UNCHANGED <<logNumber, prevLogNumber, nextFileNumber, logSeqNum,
                 visibleSeqNum, manifestFileNumber, manifest, diskVars, wal, mu,
                 logNum, pendingOutputs, la, job, phase, nextVid, crashes,
                 failures, handedOut, crashAt, mem, queue, switching, flushing, fl, com,
                 allocated, applied, returned, recovered,
                 closeVars, blockVars>>

(***************************************************************************)
(* Garbage collection of files (spec.md 4.4, 4.7): a table file whose      *)
(* number is in no version of the list and not in pendingOutputs is        *)
(* deleted, and so is a WAL file whose number is below the version set's   *)
(* log number.  Runs under DB.mu.                                          *)
(***************************************************************************)
liveFileNums == addLiveFileNums(versions) \cup pendingOutputs

\* The WAL files the version set's log number has not retired.
liveLogs == {n \in DOMAIN wal : n >= logNumber}

deleteObsoleteFiles ==
  /\ phase = "running"
  /\ mu = "none"
  /\ \/ \E n \in DOMAIN tables : n \notin liveFileNums
     \/ \E n \in DOMAIN wal : n \notin liveLogs
  /\ tables' = [n \in DOMAIN tables \cap liveFileNums |-> tables[n]]
  /\ wal' = [n \in liveLogs |-> wal[n]]
  /\ UNCHANGED <<vsVars, current, manifests, mu, logNum, pendingOutputs,
                 la, job, readers, phase, nextVid, crashes, failures, handedOut,
                 crashAt, mem, queue, switching, flushing, fl, com, allocated,
                 applied, returned, recovered,
                 closeVars, blockVars>>

(***************************************************************************)
(* SpecVS: the callers of the version set.                                 *)
(***************************************************************************)
VSLoad == load("running") /\ UNCHANGED recovered

\* The allocation of a log number by a memtable rotation (db.go:584, 612).
VSRotateLog ==
  /\ phase = "running"
  /\ mu = "none"
  /\ nextFileNumber < MaxFileNum
  /\ LET m == nextFileNum(nextFileNumber)
     IN  /\ nextFileNumber' = m.next
         /\ logNum' = m.x
         /\ handedOut' = handedOut \cup {m.x}
  /\ UNCHANGED <<versions, logNumber, prevLogNumber, logSeqNum, visibleSeqNum,
                 manifestFileNumber, manifest, diskVars, wal, mu, pendingOutputs,
                 la, job, readers, phase, nextVid, crashes, failures, crashAt,
                 dbVars, blockVars>>

\* A job writes a table: the file number is allocated and put into
\* pendingOutputs (db.go:445-447), the file is written (db.go:481-521).
VSWriteTable ==
  /\ phase = "running"
  /\ mu = "none"
  /\ job.pc = "idle"
  /\ nextFileNumber < MaxFileNum
  /\ LET m == nextFileNum(nextFileNumber)
     IN  /\ nextFileNumber' = m.next
         /\ pendingOutputs' = pendingOutputs \cup {m.x}
         /\ tables' = [n \in DOMAIN tables \cup {m.x} |->
                         IF n = m.x THEN {} ELSE tables[n]]
         /\ job' = [pc |-> "written", fileNum |-> m.x]
         /\ handedOut' = handedOut \cup {m.x}
  /\ UNCHANGED <<versions, logNumber, prevLogNumber, logSeqNum, visibleSeqNum,
                 manifestFileNumber, manifest, current, manifests, wal, mu,
                 logNum, la, readers, phase, nextVid, crashes, failures, crashAt,
                 dbVars, blockVars>>

\* The log numbers an edit is given: unset, the DB's log number, and the two
\* nearest numbers outside [log_number, next_file_number).
editLogNumbers ==
  {0, logNum, nextFileNumber} \cup (IF logNumber > 1 THEN {logNumber - 1} ELSE {})

\* The job calls logAndApply, under DB.mu, with an edit that adds its table
\* at some level and deletes at most one file of the current version.
VSLogAndApply ==
  /\ phase = "running"
  /\ mu = "none"
  /\ job.pc = "written"
  /\ la.pc = "idle"
  /\ \E ln \in editLogNumbers, lvl \in Levels,
        df \in {{}} \cup {{f} : f \in currentVersion.files} :
       logAndApplyEnter(versionEdit(ln, {<<lvl, job.fileNum>>}, df))
  /\ mu' = "job"
  /\ job' = [job EXCEPT !.pc = "applying"]
  /\ UNCHANGED <<vsVars, diskVars, wal, logNum, pendingOutputs, readers,
                 nextVid, crashes, handedOut, crashAt, dbVars, blockVars>>

\* logAndApply returned: the table leaves pendingOutputs when it is part of
\* the current version; after an error it stays (spec.md 7).
VSJobEnd ==
  /\ phase = "running"
  /\ job.pc = "applying"
  /\ la.pc = "ret"
  /\ pendingOutputs' = IF la.err THEN pendingOutputs
                       ELSE pendingOutputs \ {job.fileNum}
  /\ la' = laIdle
  /\ job' = jobIdle
  /\ mu' = "none"
  /\ UNCHANGED <<vsVars, diskVars, wal, logNum, readers, phase, nextVid,
                 crashes, failures, handedOut, crashAt, dbVars, blockVars>>

\* A crash: the memory is lost; of a manifest, what was synced survives, and
\* of the manifest CURRENT names any prefix between synced and written.
CrashVS ==
  /\ phase \in {"running", "panicked"}
  /\ crashes < MaxCrashes
  /\ crashes' = crashes + 1
  /\ phase' = "crashed"
  /\ crashAt' = [pc |-> la.pc, newFiles |-> la.ve.newFiles,
                 named |-> current = manifestFileNumber]
  /\ \E k \in manifests[current].synced .. manifests[current].written :
       manifests' = [n \in DOMAIN manifests |->
                       LET keep == IF n = current THEN k
                                   ELSE manifests[n].synced
                       IN  [recs |-> SubSeq(manifests[n].recs, 1, keep),
                            written |-> keep, synced |-> keep]]
  /\ ResetMemory
  /\ UNCHANGED <<current, tables, wal, failures, com, allocated, applied,
                 returned, recovered, blockVars>>

NextVS ==
  \/ VSLoad
  \/ VSRotateLog
  \/ VSWriteTable
  \/ VSLogAndApply
  \/ logAndApply
  \/ VSJobEnd
  \/ \E r \in Readers : GetCapture(r)
  \/ \E r \in Readers : GetReturn(r)
  \/ deleteObsoleteFiles
  \/ CrashVS

SpecVS == InitVS /\ [][NextVS]_vars

(***************************************************************************)
(* Claims about the version set, checked under SpecVS.                     *)
(***************************************************************************)
\* No logAndApply call is running: before a call, or after it returned.
BetweenCalls == phase = "running" /\ la.pc \in {"idle", "ret"}

\* C4 (as claimed): whenever CURRENT exists and no logAndApply call is
\* running, also after calls that failed, the replay of the manifest CURRENT
\* names yields the (level, file_num) set of versionSet.currentVersion().
C4_ReplayIsCurrentVersion ==
  BetweenCalls => loadState(current).files = currentVersion.files

\* C5 (as claimed, its last sentence): in no reachable state does CURRENT
\* name a manifest that holds a record which is not yet durable.
C5_CurrentManifestDurable ==
  phase = "running" =>
    manifests[current].synced = Len(manifests[current].recs)

\* C5 (amended): each rewrite of CURRENT (the step of logAndApply from
\* "setcurrent" to "install") names a manifest all of whose records,
\* the last being this call's edit and the first the snapshot, are appended,
\* flushed and fsynced; CURRENT changes in no other step of a running
\* process; and the new version is installed only with CURRENT naming that
\* manifest.
C5_RewriteAfterDurable ==
  [][ /\ (la.pc = "setcurrent" /\ la'.pc = "install") =>
           LET m == manifests'[current'] IN
             /\ current' = manifestFileNumber
             /\ m.synced = Len(m.recs)
             /\ m.written = Len(m.recs)
             /\ Len(m.recs) >= 2
             /\ m.recs[Len(m.recs)] = la.ve
             /\ m.recs[1].nextFileNumber = 0
      /\ (phase = "running" /\ current' # current) =>
           (la.pc = "setcurrent" /\ la'.pc = "install")
      /\ (la.pc = "install" /\ la'.pc = "ret") =>
           /\ current = manifestFileNumber
           /\ manifests[current].synced = Len(manifests[current].recs)
           /\ currentVersion'.files = la.newVersion
      /\ (phase = "running" /\ phase' = "running" /\ versions' # versions
          /\ nextVid' # nextVid) => la.pc = "install"
    ]_vars

\* C5 witness: CURRENT was rewritten for a call that appended to a manifest
\* CURRENT named before, and the version is about to be installed.
C5_Witness ==
  /\ la.pc = "install"
  /\ current = manifestFileNumber
  /\ Len(manifests[current].recs) >= 3

\* C6 (as claimed): after a crash inside logAndApply between the manifest
\* fsync and the CURRENT rewrite, the version recovery loads does not
\* contain the edit's new table, for every logAndApply call.
C6_CrashBeforeCurrentLosesEdit ==
  [][ (phase = "crashed" /\ crashAt.pc = "setcurrent" /\ phase' = "running")
        => currentVersion'.files \cap crashAt.newFiles = {} ]_vars

\* C6 (amended): after such a crash, if CURRENT did not yet name the manifest
\* being written (the calls after open up to the first CURRENT rewrite),
\* recovery succeeds, loads the prior manifest and the recovered version does
\* not contain the edit's new table; if CURRENT named it already (later
\* calls), a successful recovery loads that manifest and the recovered
\* version contains the table.
C6_CrashBeforeCurrent ==
  [][ (phase = "crashed" /\ crashAt.pc = "setcurrent" /\ phase' # "crashed") =>
        IF crashAt.named
        THEN phase' = "running" => crashAt.newFiles \subseteq currentVersion'.files
        ELSE /\ phase' = "running"
             /\ currentVersion'.files \cap crashAt.newFiles = {}
             /\ \A f \in crashAt.newFiles : f[2] \in DOMAIN tables
    ]_vars

\* C6 witness: recovery is about to run after a crash between fsync and the
\* CURRENT rewrite of a call that wrote a fresh manifest.
C6_Witness ==
  /\ phase = "crashed"
  /\ crashAt.pc = "setcurrent"
  /\ ~crashAt.named
  /\ crashAt.newFiles # {}

\* The file numbers of the versions of the list.
versionFileNums ==
  {f[2] : f \in UNION {versions[i].files : i \in 1..Len(versions)}}

refsOfReaders(rs, id) ==
  Cardinality({r \in Readers : rs[r].pc = "reading" /\ rs[r].version = id})

\* C9: after load and after every successful logAndApply the last node of
\* the list is the version just published, with refcount 1 when it is
\* installed; every version of the list is referenced (refcount >= 1): the
\* current one by the list and by the Gets that captured it, an older one by
\* Gets only.
C9_VersionList ==
  [][ /\ (la.pc = "install" /\ la'.pc = "ret") =>
           /\ currentVersion'.id = nextVid
           /\ currentVersion'.files = la.newVersion
           /\ currentVersion'.refs = 1
      /\ (phase \in {"closed", "crashed"} /\ phase' = "running") =>
           /\ Len(versions') = 1
           /\ currentVersion'.refs = 1
           /\ currentVersion'.files = loadState(current).files
      /\ phase' = "running" =>
           /\ Len(versions') >= 1
           /\ \A i \in 1..Len(versions') :
                /\ versions'[i].refs >= 1
                /\ versions'[i].refs =
                     (IF i = Len(versions') THEN 1 ELSE 0)
                     + refsOfReaders(readers', versions'[i].id)
    ]_vars

\* C9 witness: a version was installed while a Get references the previous
\* one, which stays in the list on the Get's reference alone.
C9_Witness ==
  /\ phase = "running"
  /\ Len(versions) = 2
  /\ versions[1].refs = 1
  /\ versions[2].refs = 1
  /\ la.pc = "ret" /\ ~la.err

(***************************************************************************)
(* The DB: options, memtables, WAL files.                                  *)
(***************************************************************************)
\* File numbers are handed out by the DB while next_file_number is at most
\* this.
MaxDBFileNum == 6
\* Seqnums are allocated up to this.
MaxSeqNum == 5
\* Committers (goroutines that call Apply).
NumCommitters == 2

Committers == 1..NumCommitters

\* d.opts: the capacity of a memtable in records, and the thresholds.
MemTableSize == 2
MemTableStopWritesThreshold == 3
L0SlowdownWritesThreshold == 0
L0StopWritesThreshold == 1

\* The records of the batch a committer applies: b.count().
BatchCount(p) == p

\* opts.GetSync() of the Apply call of a committer (db.go:239): the first
\* committer commits with sync, the others without.
Sync(p) == p = 1

\* The seqnums of a batch.
seqNums(base, count) == base .. (base + count - 1)

\* len(d.mu.versions.currentVersion().files[0])
l0Files == Cardinality({f \in currentVersion.files : f[1] = 0})

\* d.mu.mem.mutable: the last memtable of the queue.
mutable == queue[Len(queue)]

newMemTable == [applied |-> {}, reserved |-> 0, refs |-> 1]
newLogFile == [recs |-> <<>>, synced |-> 0, closed |-> FALSE]

\* memTable.prepare (spec.md 4.3): the batch fits into what is not reserved.
prepareFits(m, count) == m.reserved + count <= MemTableSize

\* maybeScheduleFlush (spec.md 4.3, 4.7): a flush starts when none is
\* running and the oldest memtable is immutable and unreferenced.
shouldFlush(q, ms, f) == ~f /\ Len(q) > 1 /\ ms[q[1]].refs = 0

\* The name under which committer p holds DB.mu.
holder(p) == "committer" \o ToString(p)

comIdle == [pc |-> "idle", count |-> 0, sync |-> FALSE, base |-> 0, n |-> 0,
            mem |-> 0, log |-> 0, newLog |-> 0, err |-> FALSE,
            nil |-> FALSE, force |-> FALSE]

\* The records a committer is about to allocate seqnums for.
pendingCount(p) ==
  IF com[p].pc \in {"room", "sleep", "wait", "rotating", "rotated"}
  THEN com[p].count ELSE 0

RECURSIVE sumPending(_)
sumPending(ps) ==
  IF ps = {} THEN 0
  ELSE LET p == CHOOSE q \in ps : TRUE
       IN  pendingCount(p) + sumPending(ps \ {p})

(***************************************************************************)
(* The state after Open of a new DB (spec.md 6): the version set is        *)
(* loaded, the first WAL file and the first memtable exist.                *)
(***************************************************************************)
Init ==
  /\ noBlock
  /\ current = 1
  /\ manifests = (1 :> [recs |-> <<[NoEdit EXCEPT !.nextFileNumber = 2]>>,
                        written |-> 1, synced |-> 1])
  /\ tables = <<>>
  /\ LET s == loadReplay([files |-> {}, logNumber |-> 0, prevLogNumber |-> 0,
                          nextFileNumber |-> 2, logSeqNum |-> 0],
                         <<[NoEdit EXCEPT !.nextFileNumber = 2]>>)
         m == nextFileNum(markFileNumUsed(
                markFileNumUsed(s.nextFileNumber, s.logNumber), s.prevLogNumber))
         l == nextFileNum(m.next)
     IN  /\ versions = append(<<>>, [id |-> 1, files |-> s.files, refs |-> 0])
         /\ logNumber = s.logNumber
         /\ prevLogNumber = s.prevLogNumber
         /\ logSeqNum = s.logSeqNum
         /\ manifestFileNumber = m.x
         /\ nextFileNumber = l.next
         /\ logNum = l.x
         /\ handedOut = {m.x, l.x}
         /\ wal = (l.x :> newLogFile)
         /\ mem = (l.x :> newMemTable)
         /\ queue = <<l.x>>
  /\ visibleSeqNum = 0
  /\ manifest = "nil"
  /\ mu = "none"
  /\ pendingOutputs = {}
  /\ la = laIdle
  /\ job = jobIdle
  /\ readers = [r \in Readers |-> readerIdle]
  /\ nextVid = 2
  /\ switching = FALSE
  /\ flushing = FALSE
  /\ fl = flIdle
  /\ closed = FALSE
  /\ closeCount = [h \in Handles |-> 0]
  /\ closer = [c \in Closers |-> "idle"]
  /\ phase = "running"
  /\ crashAt = noCrash
  /\ crashes = 0
  /\ failures = 0
  /\ com = [p \in Committers |-> comIdle]
  /\ allocated = {}
  /\ applied = {}
  /\ returned = {}
  /\ recovered = {}

(***************************************************************************)
(* The commit pipeline (spec.md 4.5) around DB.commitWrite, commitApply    *)
(* and commitSync.                                                         *)
(***************************************************************************)
\* Commit takes DB.mu and calls commitWrite, which starts with
\* throttleWrite (db.go:537-551): with too many L0 tables the lock is
\* released for a sleep.  The pipeline of a closed DB takes no batch
\* (spec.md 7).
CommitBegin(p) ==
  /\ phase = "running"
  /\ mu = "none"
  /\ com[p].pc = "idle"
  /\ ~closed
  /\ logSeqNum + sumPending(Committers) + BatchCount(p) <= MaxSeqNum
  /\ com' = [com EXCEPT ![p] =
                 [comIdle EXCEPT !.count = BatchCount(p), !.sync = Sync(p),
                  !.pc = IF l0Files <= L0SlowdownWritesThreshold
                         THEN "room" ELSE "sleep"]]
  /\ mu' = IF l0Files <= L0SlowdownWritesThreshold THEN holder(p) ELSE "none"
  /\ UNCHANGED <<versions, logNumber, prevLogNumber, nextFileNumber, logSeqNum,
                   visibleSeqNum, manifestFileNumber, manifest, current,
                   manifests, tables, logNum, pendingOutputs, la, job,
                   readers, phase, nextVid, crashes, failures, handedOut,
                   crashAt, mem, queue, switching, wal, flushing, fl,
                   allocated, applied, returned, recovered,
                 closeVars, blockVars>>

\* The lock is taken again after the sleep of throttleWrite or after a wait
\* on a condition variable of makeRoomForWrite.
Relock(p) ==
  /\ phase = "running"
  /\ mu = "none"
  /\ com[p].pc \in {"sleep", "wait"}
  /\ com' = [com EXCEPT ![p].pc = "room"]
  /\ mu' = holder(p)
  /\ UNCHANGED <<versions, logNumber, prevLogNumber, nextFileNumber, logSeqNum,
                   visibleSeqNum, manifestFileNumber, manifest, current,
                   manifests, tables, logNum, pendingOutputs, la, job,
                   readers, phase, nextVid, crashes, failures, handedOut,
                   crashAt, mem, queue, switching, wal, flushing, fl,
                   allocated, applied, returned, recovered,
                 closeVars, blockVars>>

\* Mutant of stopWrites: only the L0 threshold stops a rotation.
stopWritesL0 == l0Files > L0StopWritesThreshold

\* db.go:570, 577: too many memtables are queued or too many L0 tables are
\* in the current version, and makeRoomForWrite waits instead of rotating.
stopWrites ==
  \/ Len(queue) >= MemTableStopWritesThreshold
  \/ l0Files > L0StopWritesThreshold

\* Mutant of writeMemtable: commitWrite returns the oldest memtable of the
\* queue.
writeMemtableOldest == queue[1]

\* db.go:281: the memtable commitWrite returns, the one prepare reserved
\* room in (db.go:560).
writeMemtable == mutable

\* One iteration of the loop of makeRoomForWrite(b) (db.go:554-586).  For a
\* batch: when prepare succeeds, commitWrite appends the batch to the WAL
\* (db.go:277), the pipeline allocates the batch's seqnums and releases
\* DB.mu.  For b == nil (Flush): the first iteration is forced past the
\* return of line 568, the one after the rotation returns, and Flush
\* releases DB.mu (db.go:417).
MakeRoom(p) ==
  /\ phase = "running"
  /\ mu = holder(p)
  /\ com[p].pc = "room"
  /\ LET c == com[p].count IN
     IF switching
     THEN /\ com' = [com EXCEPT ![p].pc = "wait"]
          /\ mu' = "none"
          /\ UNCHANGED <<mem, wal, logSeqNum, allocated, nextFileNumber,
                         handedOut, switching>>
     ELSE IF com[p].nil /\ ~com[p].force
     THEN /\ com' = [com EXCEPT ![p].pc = "flushWait"]
          /\ mu' = "none"
          /\ UNCHANGED <<mem, wal, logSeqNum, allocated, nextFileNumber,
                         handedOut, switching>>
     ELSE IF ~com[p].nil /\ prepareFits(mem[mutable], c)
     THEN /\ mem' = [mem EXCEPT ![mutable].reserved = @ + c,
                                ![mutable].refs = @ + 1]
          /\ wal' = [wal EXCEPT ![logNum].recs =
                       Append(@, [base |-> logSeqNum, count |-> c])]
          /\ logSeqNum' = logSeqNum + c
          /\ allocated' = allocated \cup
               {[base |-> logSeqNum, count |-> c, sync |-> com[p].sync,
                 log |-> logNum, mem |-> writeMemtable]}
          /\ com' = [com EXCEPT ![p].pc = "apply", ![p].base = logSeqNum,
                                ![p].mem = writeMemtable]
          /\ mu' = "none"
          /\ UNCHANGED <<nextFileNumber, handedOut, switching>>
     ELSE IF stopWrites
     THEN /\ com' = [com EXCEPT ![p].pc = "wait"]
          /\ mu' = "none"
          /\ UNCHANGED <<mem, wal, logSeqNum, allocated, nextFileNumber,
                         handedOut, switching>>
     ELSE /\ nextFileNumber <= MaxDBFileNum
          /\ LET n == nextFileNum(nextFileNumber) IN
               /\ nextFileNumber' = n.next
               /\ handedOut' = handedOut \cup {n.x}
               /\ com' = [com EXCEPT ![p].pc = "rotating", ![p].newLog = n.x]
          /\ switching' = TRUE
          /\ mu' = "none"
          /\ UNCHANGED <<mem, wal, logSeqNum, allocated>>
  /\ UNCHANGED <<versions, logNumber, prevLogNumber, visibleSeqNum,
                   manifestFileNumber, manifest, current, manifests, tables,
                   logNum, pendingOutputs, la, job, readers, phase, nextVid,
                   crashes, failures, crashAt, queue, flushing, fl, applied,
                   returned, recovered,
                 closeVars, blockVars>>

\* db.go:588-594, without DB.mu: the new WAL file is created and the old
\* log writer is closed, which syncs it (db.go:259-261).
RotateIO(p) ==
  /\ phase = "running"
  /\ com[p].pc = "rotating"
  /\ \/ /\ wal' = [n \in DOMAIN wal \cup {com[p].newLog} |->
                     IF n = com[p].newLog THEN newLogFile
                     ELSE IF n = logNum
                     THEN [wal[n] EXCEPT !.synced = Len(wal[n].recs),
                                         !.closed = TRUE]
                     ELSE wal[n]]
        /\ com' = [com EXCEPT ![p].pc = "rotated"]
        /\ NoFailure
     \/ /\ Fails
        /\ wal' = wal
        /\ com' = [com EXCEPT ![p].pc = "rotated", ![p].err = TRUE]
  /\ UNCHANGED <<versions, logNumber, prevLogNumber, nextFileNumber, logSeqNum,
                   visibleSeqNum, manifestFileNumber, manifest, current,
                   manifests, tables, mu, logNum, pendingOutputs, la, job,
                   readers, phase, nextVid, crashes, handedOut, crashAt,
                   mem, queue, switching, flushing, fl, allocated, applied,
                   returned, recovered,
                 closeVars, blockVars>>

\* db.go:596-620: with DB.mu again, the new log and a new mutable memtable
\* are installed; an error of the I/O is a panic.
RotateFinish(p) ==
  /\ mu = "none"
  /\ phase = "running"
  /\ com[p].pc = "rotated"
  /\ switching' = FALSE
  /\ mu' = holder(p)
  /\ IF com[p].err
     THEN /\ phase' = "panicked"
          /\ UNCHANGED <<logNum, mem, queue, flushing, fl, com>>
     ELSE /\ phase' = phase
          /\ logNum' = com[p].newLog
          /\ LET imm == mutable
                 ms  == [n \in DOMAIN mem \cup {com[p].newLog} |->
                           IF n = com[p].newLog THEN newMemTable
                           ELSE IF n = imm
                           THEN [mem[n] EXCEPT !.refs = @ - 1]
                           ELSE mem[n]]
                 q   == Append(queue, com[p].newLog)
                 go  == ms[imm].refs = 0 /\ shouldFlush(q, ms, flushing)
             IN  /\ mem' = ms
                 /\ queue' = q
                 /\ flushing' = (flushing \/ go)
                 /\ fl' = IF go THEN [flIdle EXCEPT !.pc = "start"] ELSE fl
          /\ com' = [com EXCEPT ![p].pc = "room", ![p].force = FALSE]
  /\ UNCHANGED <<versions, logNumber, prevLogNumber, nextFileNumber, logSeqNum,
                   visibleSeqNum, manifestFileNumber, manifest, current,
                   manifests, tables, pendingOutputs, la, job, readers,
                   nextVid, crashes, failures, handedOut, crashAt, wal,
                   allocated, applied, returned, recovered,
                 closeVars, blockVars>>

\* What follows commitApply in the pipeline: the sync, if asked for, then
\* the publication.
afterApply(p) == IF com[p].sync THEN "sync" ELSE "publish"

\* Mutant of applyUnref: the memtable is unreferenced with the first record
\* of the batch, before mem.apply is through.
applyUnrefEarly(refs, n, count) == IF n = 0 THEN refs - 1 ELSE refs

\* db.go:243-247: mem.unref() follows mem.apply, so the reference of the
\* batch is dropped with its last record (n records are in, of count).
applyUnref(refs, n, count) == IF n + 1 = count THEN refs - 1 ELSE refs

\* DB.commitApply (db.go:242-247), without DB.mu: mem.apply inserts the
\* records of the batch one after the other into the memtable the batch was
\* prepared in (spec.md 4.3: record i under seqnum base+i); after the last
\* one the memtable is unreferenced.
CommitApply(p) ==
  /\ phase = "running"
  /\ com[p].pc = "apply"
  /\ LET m    == com[p].mem
         last == com[p].n + 1 = com[p].count
     IN
       /\ mem' = [mem EXCEPT
                    ![m].applied = @ \cup {com[p].base + com[p].n},
                    ![m].refs = applyUnref(@, com[p].n, com[p].count)]
       /\ com' = [com EXCEPT
                    ![p].n = @ + 1,
                    ![p].pc = IF ~last THEN "apply"
                              ELSE IF mem[m].refs = 1 THEN "schedule"
                              ELSE afterApply(p)]
       /\ applied' = IF last THEN applied \cup {com[p].base} ELSE applied
  /\ UNCHANGED <<versions, logNumber, prevLogNumber, nextFileNumber, logSeqNum,
                   visibleSeqNum, manifestFileNumber, manifest, current,
                   manifests, tables, mu, logNum, pendingOutputs, la, job,
                   readers, phase, nextVid, crashes, failures, handedOut,
                   crashAt, queue, switching, wal, flushing, fl, allocated,
                   returned, recovered,
                 closeVars, blockVars>>

\* db.go:247-251: the unref reached zero, maybeScheduleFlush under DB.mu.
CommitSchedule(p) ==
  /\ phase = "running"
  /\ mu = "none"
  /\ com[p].pc = "schedule"
  /\ LET go == shouldFlush(queue, mem, flushing) IN
       /\ flushing' = (flushing \/ go)
       /\ fl' = IF go THEN [flIdle EXCEPT !.pc = "start"] ELSE fl
  /\ com' = [com EXCEPT ![p].pc = afterApply(p)]
  /\ UNCHANGED <<versions, logNumber, prevLogNumber, nextFileNumber, logSeqNum,
                   visibleSeqNum, manifestFileNumber, manifest, current,
                   manifests, tables, mu, logNum, pendingOutputs, la, job,
                   readers, phase, nextVid, crashes, failures, handedOut,
                   crashAt, mem, queue, switching, wal, allocated, applied,
                   returned, recovered,
                 closeVars, blockVars>>

\* DB.commitSync (db.go:256-258): under DB.mu, take the current log writer.
SyncGet(p) ==
  /\ phase = "running"
  /\ mu = "none"
  /\ com[p].pc = "sync"
  /\ com' = [com EXCEPT ![p].pc = "syncing", ![p].log = logNum]
  /\ UNCHANGED <<versions, logNumber, prevLogNumber, nextFileNumber, logSeqNum,
                   visibleSeqNum, manifestFileNumber, manifest, current,
                   manifests, tables, mu, logNum, pendingOutputs, la, job,
                   readers, phase, nextVid, crashes, failures, handedOut,
                   crashAt, mem, queue, switching, wal, flushing, fl,
                   allocated, applied, returned, recovered,
                 closeVars, blockVars>>

\* DB.commitSync (db.go:262): log.Sync() without DB.mu; a log that was
\* closed in between has been synced by the close.
SyncDo(p) ==
  /\ phase = "running"
  /\ com[p].pc = "syncing"
  /\ wal' = IF com[p].log \in DOMAIN wal
            THEN [wal EXCEPT ![com[p].log].synced = Len(wal[com[p].log].recs)]
            ELSE wal
  /\ com' = [com EXCEPT ![p].pc = "publish"]
  /\ UNCHANGED <<versions, logNumber, prevLogNumber, nextFileNumber, logSeqNum,
                   visibleSeqNum, manifestFileNumber, manifest, current,
                   manifests, tables, mu, logNum, pendingOutputs, la, job,
                   readers, phase, nextVid, crashes, failures, handedOut,
                   crashAt, mem, queue, switching, flushing, fl, allocated,
                   applied, returned, recovered,
                 closeVars, blockVars>>

\* Mutant of lowerApplied: a batch is published as soon as it is applied.
lowerIgnored(b) == TRUE

\* Mutant of publish: the published seqnum is one past the batch.
publishPast(v, b, c) == b + c + 1

\* The batches with a lower base seqnum than b have finished commitApply.
lowerApplied(b) == \A a \in allocated : a.base < b => a.base \in applied

\* The new value of visible_seq_num when the batch at base b is published.
publish(v, b, c) == IF v < b + c THEN b + c ELSE v

\* Publication (spec.md 4.5, step 3), after which Commit returns.
Publish(p) ==
  /\ phase = "running"
  /\ com[p].pc = "publish"
  /\ lowerApplied(com[p].base)
  /\ visibleSeqNum' = publish(visibleSeqNum, com[p].base, com[p].count)
  /\ returned' = returned \cup {com[p].base}
  /\ com' = [com EXCEPT ![p] = comIdle]
  /\ UNCHANGED <<versions, logNumber, prevLogNumber, nextFileNumber, logSeqNum,
                   manifestFileNumber, manifest, current, manifests, tables,
                   mu, logNum, pendingOutputs, la, job, readers, phase,
                   nextVid, crashes, failures, handedOut, crashAt, mem,
                   queue, switching, wal, flushing, fl, allocated, applied,
                   recovered,
                 closeVars, blockVars>>

(***************************************************************************)
(* The flush job (spec.md 4.7) around DB.writeLevel0Table.                 *)
(***************************************************************************)
\* The end of the flush goroutine, given the queue it leaves: flushing is
\* cleared and maybeScheduleFlush may start the next flush.
flushDone(q) ==
  LET go == shouldFlush(q, mem, FALSE) IN
    /\ flushing' = go
    /\ fl' = IF go THEN [flIdle EXCEPT !.pc = "start"] ELSE flIdle

\* The flush takes DB.mu and calls writeLevel0Table for the oldest memtable;
\* db.go:445-456: a file number is allocated and put into pendingOutputs,
\* DB.mu is released.
FlushBegin ==
  /\ phase = "running"
  /\ mu = "none"
  /\ fl.pc = "start"
  /\ nextFileNumber <= MaxDBFileNum
  /\ LET n == nextFileNum(nextFileNumber) IN
       /\ nextFileNumber' = n.next
       /\ handedOut' = handedOut \cup {n.x}
       /\ pendingOutputs' = pendingOutputs \cup {n.x}
       /\ fl' = [pc |-> "write", mem |-> queue[1], fileNum |-> n.x,
                 err |-> FALSE, meta |-> n.x]
  /\ UNCHANGED <<versions, logNumber, prevLogNumber, logSeqNum, visibleSeqNum,
                   manifestFileNumber, manifest, current, manifests, tables,
                   mu, logNum, la, job, readers, phase, nextVid, crashes,
                   failures, crashAt, mem, queue, switching, wal, flushing,
                   com, allocated, applied, returned, recovered,
                 closeVars, blockVars>>

\* Mutant of tableContents: the loop stops after the first entry.
tableContentsFirst(m) ==
  {s \in mem[m].applied : \A t \in mem[m].applied : s <= t}

\* db.go:476-499: iter.First(), then tw.Add for every entry until iter.Next()
\* returns false: the table gets every record of the memtable.
tableContents(m) == mem[m].applied

\* db.go:489-520: the entries in the file when tw.Add fails at an entry, or
\* when tw.Close, tw.Stat or the size check fails after the last one.
partialContents(m) ==
  {{s \in tableContents(m) : s < t} : t \in tableContents(m)}
    \cup {tableContents(m)}

\* The table file with the given contents is on disk under number n.
fsCreate(ts, n, recs) ==
  [k \in DOMAIN ts \cup {n} |-> IF k = n THEN recs ELSE ts[k]]

\* Mutant of fsRemove: the file stays on disk.
fsRemoveNone(ts, n) == ts

\* db.go:471, fs.Remove(filename): the file, when there is one, is gone.
fsRemove(ts, n) == [k \in DOMAIN ts \ {n} |-> ts[k]]

\* db.go:476-534, without DB.mu: the table is written from the memtable.  An
\* empty memtable (477-479) and a failed fs.Create (481-484) return an error
\* before there is a file; a failed Add, Close or Stat and a negative size
\* (493-520) return an error with the file on disk, holding the entries
\* added so far.
WL0Write ==
  /\ phase = "running"
  /\ fl.pc = "write"
  /\ IF mem[fl.mem].applied = {}
     THEN /\ fl' = [fl EXCEPT !.pc = "failed", !.err = TRUE]
          /\ tables' = tables
          /\ NoFailure
     ELSE \/ /\ tables' = fsCreate(tables, fl.fileNum, tableContents(fl.mem))
             /\ fl' = [fl EXCEPT !.pc = "written"]
             /\ NoFailure
          \/ /\ Fails
             /\ tables' = tables
             /\ fl' = [fl EXCEPT !.pc = "failed", !.err = TRUE]
          \/ /\ Fails
             /\ \E part \in partialContents(fl.mem) :
                  tables' = fsCreate(tables, fl.fileNum, part)
             /\ fl' = [fl EXCEPT !.pc = "failed", !.err = TRUE]
  /\ UNCHANGED <<versions, logNumber, prevLogNumber, nextFileNumber, logSeqNum,
                   visibleSeqNum, manifestFileNumber, manifest, current,
                   manifests, mu, logNum, pendingOutputs, la, job, readers,
                   phase, nextVid, crashes, handedOut, crashAt, mem, queue,
                   switching, wal, flushing, com, allocated, applied,
                   returned, recovered,
                 closeVars, blockVars>>

\* db.go:463-474, the deferred function after an error, still without
\* DB.mu: the file is removed and the returned metadata is zeroed.
WL0Cleanup ==
  /\ phase = "running"
  /\ fl.pc = "failed"
  /\ tables' = fsRemove(tables, fl.fileNum)
  /\ fl' = [fl EXCEPT !.pc = "written", !.meta = 0]
  /\ UNCHANGED <<versions, logNumber, prevLogNumber, nextFileNumber, logSeqNum,
                   visibleSeqNum, manifestFileNumber, manifest, current,
                   manifests, mu, logNum, pendingOutputs, la, job, readers,
                   phase, nextVid, crashes, failures, handedOut, crashAt, mem,
                   queue, switching, wal, flushing, com, allocated, applied,
                   returned, recovered,
                 closeVars, blockVars>>

\* writeLevel0Table returns with DB.mu again (db.go:457) and, after an
\* error, without the file number in pendingOutputs (db.go:448-452), and the
\* flush ends.  Otherwise the flush calls logAndApply with the edit
\* {log_number := d.mu.log.number, new_files += (0, meta)}.
WL0Return ==
  /\ phase = "running"
  /\ mu = "none"
  /\ fl.pc = "written"
  /\ IF fl.err
     THEN /\ pendingOutputs' = pendingOutputs \ {fl.fileNum}
          /\ flushDone(queue)
          /\ UNCHANGED <<mu, la, phase, failures>>
     ELSE /\ logAndApplyEnter(versionEdit(logNum, {<<0, fl.meta>>}, {}))
          /\ mu' = "flush"
          /\ fl' = [fl EXCEPT !.pc = "applying"]
          /\ UNCHANGED <<pendingOutputs, flushing>>
  /\ UNCHANGED <<versions, logNumber, prevLogNumber, nextFileNumber, logSeqNum,
                   visibleSeqNum, manifestFileNumber, manifest, current,
                   manifests, tables, logNum, job, readers, nextVid,
                   crashes, handedOut, crashAt, mem, queue, switching, wal,
                   com, allocated, applied, returned, recovered,
                 closeVars, blockVars>>

\* logAndApply returned: the table leaves pendingOutputs and the memtable
\* the queue when the edit was applied; after an error both stay.
FlushFinish ==
  /\ phase = "running"
  /\ fl.pc = "applying"
  /\ la.pc = "ret"
  /\ IF la.err
     THEN /\ UNCHANGED <<pendingOutputs, queue>>
          /\ flushDone(queue)
     ELSE /\ pendingOutputs' = pendingOutputs \ {fl.fileNum}
          /\ queue' = Tail(queue)
          /\ flushDone(Tail(queue))
  /\ la' = laIdle
  /\ mu' = "none"
  /\ UNCHANGED <<versions, logNumber, prevLogNumber, nextFileNumber, logSeqNum,
                   visibleSeqNum, manifestFileNumber, manifest, current,
                   manifests, tables, logNum, job, readers, phase, nextVid,
                   crashes, failures, handedOut, crashAt, mem, switching,
                   wal, com, allocated, applied, returned, recovered,
                 closeVars, blockVars>>

(***************************************************************************)
(* Crash and recovery.                                                     *)
(***************************************************************************)
\* A crash: the memory is lost.  Of a manifest and of a WAL file what was
\* synced survives; of the manifest CURRENT names and of the open WAL file
\* any prefix between what was synced and what was written.
Crash ==
  /\ phase \in {"running", "panicked"}
  /\ crashes < MaxCrashes
  /\ crashes' = crashes + 1
  /\ phase' = "crashed"
  /\ crashAt' = [pc |-> la.pc, newFiles |-> la.ve.newFiles,
                 named |-> current = manifestFileNumber]
  /\ \E k \in manifests[current].synced .. manifests[current].written :
       manifests' = [n \in DOMAIN manifests |->
                       LET keep == IF n = current THEN k
                                   ELSE manifests[n].synced
                       IN  [recs |-> SubSeq(manifests[n].recs, 1, keep),
                            written |-> keep, synced |-> keep]]
  /\ \E k \in 0..MaxSeqNum :
       /\ logNum \in DOMAIN wal =>
            k \in wal[logNum].synced .. Len(wal[logNum].recs)
       /\ logNum \notin DOMAIN wal => k = 0
       /\ wal' = [n \in DOMAIN wal |->
                    LET keep == IF n = logNum THEN k ELSE wal[n].synced
                    IN  [recs |-> SubSeq(wal[n].recs, 1, keep),
                         synced |-> keep, closed |-> TRUE]]
  /\ ResetMemory
  /\ com' = [p \in Committers |-> comIdle]
  /\ UNCHANGED <<current, tables, failures, allocated, applied, returned,
                 recovered, blockVars>>

\* The seqnums of the records of a WAL file.
RECURSIVE logSeqNums(_)
logSeqNums(recs) ==
  IF recs = <<>> THEN {}
  ELSE seqNums(Head(recs).base, Head(recs).count) \cup logSeqNums(Tail(recs))

\* What recovery reproduces: the tables of the version load builds and the
\* records of the WAL files that the loaded log number has not retired.
replay ==
  LET s == loadState(currentManifest) IN
    IF loadIncomplete(s) THEN {}
    ELSE UNION {tables[f[2]] : f \in {g \in s.files : g[2] \in DOMAIN tables}}
         \cup UNION {logSeqNums(wal[n].recs) :
                       n \in {k \in DOMAIN wal : k >= s.logNumber}}

\* Recovery: load, then the replay of the WAL files.
Recover ==
  /\ load("recovered")
  /\ recovered' = replay

Next ==
  \/ \E p \in Committers : CommitBegin(p)
  \/ \E p \in Committers : Relock(p)
  \/ \E p \in Committers : MakeRoom(p)
  \/ \E p \in Committers : RotateIO(p)
  \/ \E p \in Committers : RotateFinish(p)
  \/ \E p \in Committers : CommitApply(p)
  \/ \E p \in Committers : CommitSchedule(p)
  \/ \E p \in Committers : SyncGet(p)
  \/ \E p \in Committers : SyncDo(p)
  \/ \E p \in Committers : Publish(p)
  \/ FlushBegin
  \/ WL0Write
  \/ WL0Cleanup
  \/ WL0Return
  \/ logAndApply
  \/ FlushFinish
  \/ \E r \in Readers : GetCapture(r)
  \/ \E r \in Readers : GetReturn(r)
  \/ deleteObsoleteFiles
  \/ Crash
  \/ Recover

Spec == Init /\ [][Next]_vars

(***************************************************************************)
(* Claims about the DB, checked under Spec.                                *)
(***************************************************************************)
\* The records the memtables of a queue hold.
memRecords(q) == UNION {mem[q[i]].applied : i \in 1..Len(q)}

\* The records the tables of a set of (level, fileNum) hold.
tableRecords(files) ==
  UNION {tables[f[2]] : f \in {g \in files : g[2] \in DOMAIN tables}}

\* C1: visible_seq_num covers a batch only when that batch and every batch
\* with a lower base seqnum have finished commitApply, and every record with
\* a seqnum below visible_seq_num is in a memtable of the queue or in a table
\* of the current version.
C1_VisibleIsApplied ==
  phase = "running" =>
    /\ \A a \in allocated : a.base < visibleSeqNum => a.base \in applied
    /\ \A s \in 0..(visibleSeqNum - 1) :
         s \in memRecords(queue) \cup tableRecords(currentVersion.files)

\* C1 witness: a batch is applied and waits with its publication for a batch
\* with a lower base seqnum that is not applied yet, while records are
\* visible.
C1_Witness ==
  /\ phase = "running"
  /\ visibleSeqNum > 0
  /\ \E a, b \in allocated :
       /\ a.base < b.base
       /\ a.base \notin applied
       /\ b.base \in applied
       /\ \E p \in Committers : com[p].pc = "publish" /\ com[p].base = b.base

\* C2: a Get that starts after Commit returned for a batch captures a
\* visible seqnum that covers the batch's seqnums, and a memtable queue and a
\* version that together contain the batch's records.
C2_ReturnedIsRead ==
  \A r \in Readers :
    readers[r].pc = "reading" =>
      \A a \in allocated :
        a.base \in readers[r].seen =>
          /\ a.base + a.count <= readers[r].snapshot
          /\ indexOf(versions, readers[r].version) # 0
          /\ seqNums(a.base, a.count) \subseteq
               memRecords(readers[r].memtables) \cup
               tableRecords(versions[indexOf(versions, readers[r].version)].files)

\* C2 witness: a Get started after two commits returned, one whose records
\* a flush moved to a table and one whose records are in a memtable that a
\* rotation made immutable.
C2_Witness ==
  \E r \in Readers :
    /\ readers[r].pc = "reading"
    /\ Len(readers[r].memtables) >= 2
    /\ \E a, b \in allocated :
         /\ a.base \in readers[r].seen
         /\ b.base \in readers[r].seen
         /\ seqNums(a.base, a.count) \cap memRecords(readers[r].memtables) = {}
         /\ seqNums(b.base, b.count) \subseteq mem[readers[r].memtables[1]].applied

\* C3 (as claimed): after Commit with sync returned for a batch, a crash at
\* any later point followed by recovery reproduces every record of the
\* batch.
C3_SyncedIsRecovered ==
  phase = "recovered" =>
    \A a \in allocated :
      (a.sync /\ a.base \in returned) => seqNums(a.base, a.count) \subseteq recovered

\* C7: within a process, next_file_number never decreases; a number that a
\* rotation or writeLevel0Table gets from nextFileNum was not handed out
\* before, is above every number handed out before and below the next file
\* number; the WAL, table and manifest files have different numbers; and
\* markFileNumUsed(n) leaves the next file number above n and not lower
\* than it was.
C7_FileNumbers ==
  [][ /\ (phase = "running" /\ phase' \in {"running", "panicked"}) =>
           /\ nextFileNumber' >= nextFileNumber
           /\ \A n \in handedOut' : n < nextFileNumber'
           /\ \A p \in Committers :
                (com[p].pc = "room" /\ com'[p].pc = "rotating") =>
                  /\ com'[p].newLog \notin handedOut
                  /\ \A k \in handedOut : k < com'[p].newLog
           /\ (fl.pc = "start" /\ fl'.pc = "write") =>
                /\ fl'.fileNum \notin handedOut
                /\ \A k \in handedOut : k < fl'.fileNum
           /\ DOMAIN wal' \cap DOMAIN tables' = {}
           /\ DOMAIN wal' \cap DOMAIN manifests' = {}
           /\ DOMAIN tables' \cap DOMAIN manifests' = {}
      /\ \A nfn \in 0..(MaxDBFileNum + 1), n \in 0..(MaxDBFileNum + 1) :
           /\ markFileNumUsed(nfn, n) > n
           /\ markFileNumUsed(nfn, n) >= nfn
    ]_vars

\* C7 witness: file numbers went to the manifest, to WAL files of two
\* rotations and to a table, and logAndApply ran.
C7_Witness ==
  /\ phase = "running"
  /\ Cardinality(DOMAIN wal) >= 2
  /\ tables # <<>>
  /\ manifestFileNumber \in DOMAIN manifests
  /\ la.pc = "ret"
  /\ Cardinality(handedOut) >= 5

\* C10: visible_seq_num <= log_seq_num in every state.
C10_VisibleAtMostLog == visibleSeqNum <= logSeqNum

\* C10 witness: committers allocated seqnums that are not visible yet while
\* others are, and logAndApply stamps an edit with log_seq_num.
C10_Witness ==
  /\ 0 < visibleSeqNum
  /\ visibleSeqNum < logSeqNum
  /\ la.pc = "flush"
  /\ la.ve.lastSequence > visibleSeqNum

\* What a Get in flight can return: the records below its snapshot that are
\* in a memtable it captured or in a table of the version it captured
\* (db.go:171-186).
observed(r) ==
  LET i == indexOf(versions, readers[r].version) IN
    {s \in memRecords(readers[r].memtables) \cup
             (IF i = 0 THEN {} ELSE tableRecords(versions[i].files)) :
       s < readers[r].snapshot}

\* C11: a reader never sees a batch partially: for every Get in flight and
\* every batch that got seqnums base..base+count-1, at every moment of the
\* read either all records of the batch are below the snapshot and in the
\* captured memtables or the captured version, or none of them is observed.
C11_BatchAtomic ==
  \A r \in Readers :
    readers[r].pc = "reading" =>
      \A a \in allocated :
        \/ seqNums(a.base, a.count) \cap observed(r) = {}
        \/ /\ a.base + a.count <= readers[r].snapshot
           /\ seqNums(a.base, a.count) \subseteq observed(r)

\* C11 witness: a Get observes a whole batch of two records while
\* commitApply has inserted one of the two records of a later batch into a
\* memtable the Get captured.
C11_Witness ==
  \E r \in Readers :
    /\ readers[r].pc = "reading"
    /\ \E a \in allocated :
         /\ a.count = 2
         /\ seqNums(a.base, a.count) \subseteq observed(r)
    /\ \E p \in Committers :
         /\ com[p].pc = "apply"
         /\ com[p].count = 2
         /\ com[p].n = 1
         /\ \E i \in 1..Len(readers[r].memtables) :
              /\ readers[r].memtables[i] = com[p].mem
              /\ com[p].base \in mem[com[p].mem].applied

(***************************************************************************)
(* Further claims about the version set, checked under SpecVS.             *)
(***************************************************************************)
\* C12: logAndApply validates the edit's log number when it is set: the
\* call panics exactly when the number is below the version set's log
\* number or not below the next file number, and a call that panics has
\* written nothing to a manifest, has not changed CURRENT and has installed
\* no version, nor does any later step of the panicked process; an edit with
\* the log number unset or in [log_number, next_file_number) passes.
C12_LogNumberValidated ==
  [][ /\ (phase = "running" /\ la.pc = "idle" /\ la' # la) =>
           LET ln  == la'.ve.logNumber
               bad == ln # 0 /\ (ln < logNumber \/ ln >= nextFileNumber)
           IN  /\ bad <=> phase' = "panicked"
               /\ ~bad => la'.pc \in {"manifest", "ret"}
      /\ phase' = "panicked" =>
           /\ manifests' = manifests
           /\ manifest' = manifest
           /\ current' = current
           /\ versions' = versions
           /\ logNumber' = logNumber
           /\ la'.pc = "idle"
    ]_vars

\* C12 witness: after an edit with a set log number passed the validation
\* and was installed, a call with a log number below the version set's
\* panicked.
C12_Witness ==
  /\ phase = "panicked"
  /\ logNumber > 0
  /\ la.ve.logNumber # 0
  /\ la.ve.logNumber < logNumber
  /\ current = manifestFileNumber
  /\ Len(manifests[current].recs) >= 2

(***************************************************************************)
(* SpecLoad: versionSet.load on a directory whose manifest holds any       *)
(* records: up to MaxLoadRecords edits with numbers up to MaxLoadFileNum.  *)
(***************************************************************************)
MaxLoadRecords == 2
MaxLoadFileNum == 3

\* The edits a manifest record can decode to.
loadEdits ==
  [logNumber : 0..MaxLoadFileNum, prevLogNumber : 0..MaxLoadFileNum,
   nextFileNumber : 0..MaxLoadFileNum, lastSequence : {0},
   newFiles : {{}} \cup {{<<0, f>>} : f \in 1..MaxLoadFileNum},
   deletedFiles : {{}}]

\* The manifests of at least one and at most n whole records.
RECURSIVE manifestsUpTo(_)
manifestsUpTo(n) ==
  IF n = 0 THEN {}
  ELSE {[recs |-> r, written |-> n, synced |-> n] : r \in [1..n -> loadEdits]}
       \cup manifestsUpTo(n - 1)

InitLoad ==
  /\ noBlock
  /\ InitMemory
  /\ current = 1
  /\ \E m \in manifestsUpTo(MaxLoadRecords) : manifests = (1 :> m)
  /\ tables = <<>>
  /\ wal = <<>>
  /\ phase = "closed"
  /\ crashAt = noCrash
  /\ crashes = 0
  /\ failures = 0
  /\ com = <<>>
  /\ allocated = {}
  /\ applied = {}
  /\ returned = {}
  /\ recovered = {}

NextLoad == VSLoad

SpecLoad == InitLoad /\ [][NextLoad]_vars

\* The file numbers load observes in the manifest CURRENT names: the log
\* number, the previous log number and the tables added by the records.
observedFileNums ==
  LET recs == manifestRecords(currentManifest) IN
    {logNumber, prevLogNumber}
    \cup {f[2] : f \in UNION {recs[i].newFiles : i \in 1..Len(recs)}}

\* C13 (as claimed): after load, next_file_number is greater than every file
\* number observed while replaying the manifest, whatever the manifest
\* holds.
C13_NextPastObserved ==
  phase = "running" => \A n \in observedFileNums : n < nextFileNumber

(***************************************************************************)
(* DB.Close (db.go:386-401) and SpecClose: the DB with callers of Close.   *)
(***************************************************************************)
\* d.mu.compact.compacting: no code of src/ sets it (Compact is
\* unimplemented, db.go:406-408).
compacting == FALSE

\* Mutant of closeWaits: Close does not wait for the flush.
closeWaitsNever == FALSE

\* db.go:392: the condition of the loop around d.mu.compact.cond.Wait().
closeWaits == compacting \/ flushing

\* db.go:395-399: Close closes the table cache, the log writer (which syncs
\* the WAL file), the file lock and the commit pipeline, and sets closed.
closeAll ==
  /\ closeCount' = [h \in Handles |-> closeCount[h] + 1]
  /\ closed' = TRUE
  /\ wal' = IF logNum \in DOMAIN wal
            THEN [wal EXCEPT ![logNum].synced = Len(wal[logNum].recs),
                             ![logNum].closed = TRUE]
            ELSE wal

\* db.go:387-394: Close takes DB.mu; on a closed DB it returns nil; while a
\* flush or a compaction is active it waits on the compact condition
\* variable, which releases DB.mu; otherwise it closes and returns.
CloseBegin(c) ==
  /\ phase = "running"
  /\ mu = "none"
  /\ closer[c] = "idle"
  /\ IF closed
     THEN /\ closer' = [closer EXCEPT ![c] = "done"]
          /\ UNCHANGED <<closed, closeCount, wal>>
     ELSE IF closeWaits
     THEN /\ closer' = [closer EXCEPT ![c] = "wait"]
          /\ UNCHANGED <<closed, closeCount, wal>>
     ELSE /\ closer' = [closer EXCEPT ![c] = "done"]
          /\ closeAll
  /\ UNCHANGED <<versions, logNumber, prevLogNumber, nextFileNumber, logSeqNum,
                   visibleSeqNum, manifestFileNumber, manifest, current,
                   manifests, tables, mu, logNum, pendingOutputs, la, job,
                   readers, phase, nextVid, crashes, failures, handedOut,
                   crashAt, mem, queue, switching, flushing, fl, com,
                   allocated, applied, returned, recovered, blockVars>>

\* db.go:392-399: Wait returned with DB.mu and the condition of the loop is
\* false: Close closes and returns (d.mu.closed is not read again).
CloseWake(c) ==
  /\ phase = "running"
  /\ mu = "none"
  /\ closer[c] = "wait"
  /\ ~closeWaits
  /\ closer' = [closer EXCEPT ![c] = "done"]
  /\ closeAll
  /\ UNCHANGED <<versions, logNumber, prevLogNumber, nextFileNumber, logSeqNum,
                   visibleSeqNum, manifestFileNumber, manifest, current,
                   manifests, tables, mu, logNum, pendingOutputs, la, job,
                   readers, phase, nextVid, crashes, failures, handedOut,
                   crashAt, mem, queue, switching, flushing, fl, com,
                   allocated, applied, returned, recovered, blockVars>>

\* The goroutines that commit in SpecClose.
CloseCommitters == Committers

NextClose ==
  \/ \E p \in CloseCommitters : CommitBegin(p)
  \/ \E p \in CloseCommitters : Relock(p)
  \/ \E p \in CloseCommitters : MakeRoom(p)
  \/ \E p \in CloseCommitters : RotateIO(p)
  \/ \E p \in CloseCommitters : RotateFinish(p)
  \/ \E p \in CloseCommitters : CommitApply(p)
  \/ \E p \in CloseCommitters : CommitSchedule(p)
  \/ \E p \in CloseCommitters : SyncGet(p)
  \/ \E p \in CloseCommitters : SyncDo(p)
  \/ \E p \in CloseCommitters : Publish(p)
  \/ FlushBegin
  \/ WL0Write
  \/ WL0Cleanup
  \/ WL0Return
  \/ logAndApply
  \/ FlushFinish
  \/ \E r \in Readers : GetCapture(r)
  \/ \E r \in Readers : GetReturn(r)
  \/ deleteObsoleteFiles
  \/ \E c \in Closers : CloseBegin(c)
  \/ \E c \in Closers : CloseWake(c)

SpecClose == Init /\ [][NextClose]_vars

\* C14 (as claimed): after Close has returned, no API call reads or changes
\* the state of the DB: no Get captures the snapshot, the version and the
\* memtables, and no Apply enters the commit pipeline.
C14_ClosedRejects ==
  [][ (closed /\ phase' = "running") =>
        /\ \A r \in Readers :
             readers[r].pc = "idle" => readers'[r].pc = "idle"
        /\ \A p \in Committers :
             com[p].pc = "idle" => com'[p].pc = "idle"
    ]_vars

C16_ClosedOnce ==
  \A h \in Handles : closeCount[h] = (IF closed THEN 1 ELSE 0)

(***************************************************************************)
(* The block codec (src/sstable/block.go).  A byte is a number in 0..255,  *)
(* a byte string a sequence of bytes, an offset counts from 0.             *)
(***************************************************************************)
\* binary.PutUvarint: 7 bits per byte, the low bits first.
RECURSIVE putUvarint(_)
putUvarint(v) ==
  IF v < 128 THEN <<v>> ELSE <<128 + (v % 128)>> \o putUvarint(v \div 128)

\* decodeVarint at an offset of a byte string: the value and the offset
\* after it.
RECURSIVE decodeVarint(_, _)
decodeVarint(data, off) ==
  LET b == data[off + 1] IN
    IF b < 128 THEN [v |-> b, next |-> off + 1]
    ELSE LET r == decodeVarint(data, off + 1)
         IN  [v |-> (b - 128) + 128 * r.v, next |-> r.next]

\* binary.LittleEndian.PutUint32 and Uint32.
RECURSIVE putLittleEndian(_, _)
putLittleEndian(v, n) ==
  IF n = 0 THEN <<>> ELSE <<v % 256>> \o putLittleEndian(v \div 256, n - 1)

RECURSIVE littleEndian(_, _, _)
littleEndian(data, off, n) ==
  IF n = 0 THEN 0 ELSE data[off + 1] + 256 * littleEndian(data, off + 1, n - 1)

\* bytes.Compare, the comparer of the iterator: -1, 0 or 1.
RECURSIVE compareBytes(_, _)
compareBytes(a, b) ==
  IF a = <<>> THEN (IF b = <<>> THEN 0 ELSE -1)
  ELSE IF b = <<>> THEN 1
  ELSE IF Head(a) < Head(b) THEN -1
  ELSE IF Head(a) > Head(b) THEN 1
  ELSE compareBytes(Tail(a), Tail(b))

\* db.SharedPrefixLen
RECURSIVE SharedPrefixLen(_, _)
SharedPrefixLen(a, b) ==
  IF a = <<>> \/ b = <<>> \/ Head(a) # Head(b) THEN 0
  ELSE 1 + SharedPrefixLen(Tail(a), Tail(b))

\* The reverse of a sequence.
reverse(s) == [j \in 1..Len(s) |-> s[Len(s) + 1 - j]]

\* An internal key is [userKey, trailer]; the trailer is the 8 bytes of
\* (seqnum << 8) | kind, little-endian (spec.md 6).
InternalKeyKindSet == 1
InternalKeyKindMax == 17
InternalKeyKindInvalid == 255

MakeInternalKey(userKey, seqNum, kind) ==
  [userKey |-> userKey, trailer |-> <<kind>> \o putLittleEndian(seqNum, 7)]

\* db.MakeSearchKey: the user key with the largest seqnum and kind.
MakeSearchKey(userKey) ==
  [userKey |-> userKey,
   trailer |-> <<InternalKeyKindMax, 255, 255, 255, 255, 255, 255, 255>>]

\* InternalKey.Encode and db.DecodeInternalKey.
Encode(ikey) == ikey.userKey \o ikey.trailer

DecodeInternalKey(enc) ==
  IF Len(enc) >= 8
  THEN [userKey |-> SubSeq(enc, 1, Len(enc) - 8),
        trailer |-> SubSeq(enc, Len(enc) - 7, Len(enc))]
  ELSE [userKey |-> enc,
        trailer |-> <<InternalKeyKindInvalid, 0, 0, 0, 0, 0, 0, 0>>]

\* InternalKey.SetSeqNum
SetSeqNum(ikey, seqNum) ==
  [userKey |-> ikey.userKey,
   trailer |-> <<ikey.trailer[1]>> \o putLittleEndian(seqNum, 7)]

\* db.InternalCompare: by user key, then the larger trailer first.
InternalCompare(a, b) ==
  LET x == compareBytes(a.userKey, b.userKey) IN
    IF x # 0 THEN x
    ELSE -compareBytes(reverse(a.trailer), reverse(b.trailer))

\* ---- blockWriter (block.go:25-85)
newBlockWriter(restartInterval) ==
  [restartInterval |-> restartInterval, nEntries |-> 0, buf |-> <<>>,
   restarts |-> <<>>, curKey |-> <<>>, prevKey |-> <<>>]

\* blockWriter.store (block.go:35-51)
store(w, keySize, value) ==
  LET restart == w.nEntries % w.restartInterval = 0
      shared  == IF restart THEN 0 ELSE SharedPrefixLen(w.curKey, w.prevKey)
  IN  [restartInterval |-> w.restartInterval,
       nEntries |-> w.nEntries + 1,
       buf |-> w.buf \o putUvarint(shared) \o putUvarint(keySize - shared)
                 \o putUvarint(Len(value))
                 \o SubSeq(w.curKey, shared + 1, Len(w.curKey)) \o value,
       restarts |-> IF restart THEN Append(w.restarts, Len(w.buf))
                    ELSE w.restarts,
       curKey |-> w.curKey, prevKey |-> w.prevKey]

\* blockWriter.add (block.go:53-64)
add(w, key, value) ==
  store([w EXCEPT !.curKey = Encode(key), !.prevKey = w.curKey],
        Len(Encode(key)), value)

RECURSIVE putRestarts(_)
putRestarts(rs) ==
  IF rs = <<>> THEN <<>>
  ELSE putLittleEndian(Head(rs), 4) \o putRestarts(Tail(rs))

\* blockWriter.finish (block.go:66-85)
finish(w) ==
  LET rs == IF w.nEntries = 0 THEN <<0>> ELSE w.restarts
  IN  w.buf \o putRestarts(rs) \o putLittleEndian(Len(rs), 4)

\* The writer after add was called for each entry of a sequence.
RECURSIVE addAll(_, _)
addAll(w, entries) ==
  IF entries = <<>> THEN w
  ELSE addAll(add(w, Head(entries).key, Head(entries).val), Tail(entries))

\* ---- blockIter (block.go:104-393).  A slice of bytes is [arr, off, len,
\* cap]: an array of iter.mem, where it starts in the array, its length and
\* its capacity; append writes into the array when the capacity is enough and
\* into a new array otherwise.
\* The capacity the Go runtime gives a grown byte slice: at least double,
\* rounded up to a size class.
roundupsize(n) ==
  IF n <= 8 THEN 8
  ELSE IF n <= 32 THEN ((n + 7) \div 8) * 8
  ELSE ((n + 15) \div 16) * 16

growCap(old, need) == roundupsize(IF need > 2 * old THEN need ELSE 2 * old)

\* The bytes of a slice.
sliceBytes(m, s) == SubSeq(m[s.arr], s.off + 1, s.off + s.len)

\* An array with bytes written from an offset on.
writeAt(a, off, bytes) ==
  SubSeq(a, 1, off) \o bytes \o SubSeq(a, off + Len(bytes) + 1, Len(a))

\* newBlockIter and init (block.go:123-147) for a block with restart points;
\* i.key is make([]byte, 0, 256).
globalSeqNum == 0

newBlockIter(data) ==
  LET numRestarts == littleEndian(data, Len(data) - 4, 4) IN
    [offset |-> 0, nextOffset |-> 0,
     restarts |-> Len(data) - 4 * (1 + numRestarts),
     numRestarts |-> numRestarts,
     key |-> [arr |-> 1, off |-> 0, len |-> 0, cap |-> 256],
     val |-> <<>>,
     ikey |-> DecodeInternalKey(<<>>),
     cached |-> <<>>,
     cachedBuf |-> [arr |-> 0, off |-> 0, len |-> 0, cap |-> 0],
     mem |-> << <<>> >>]

\* The offset the j-th restart point holds (j from 0).
restartAt(data, i, j) == littleEndian(data, i.restarts + 4 * j, 4)

\* blockIter.readEntry (block.go:149-159): i.key = append(i.key[:shared],
\* <the unshared bytes>...), then the capacity of i.key is cut to its length.
readEntry(data, i) ==
  LET shared   == decodeVarint(data, i.offset)
      unshared == decodeVarint(data, shared.next)
      value    == decodeVarint(data, unshared.next)
      bytes    == SubSeq(data, value.next + 1, value.next + unshared.v)
      n        == shared.v + unshared.v
      inPlace  == n <= i.key.cap
  IN  [i EXCEPT
         !.mem = IF inPlace
                 THEN [i.mem EXCEPT ![i.key.arr] =
                         writeAt(i.mem[i.key.arr], i.key.off + shared.v, bytes)]
                 ELSE Append(i.mem,
                             SubSeq(sliceBytes(i.mem, i.key), 1, shared.v)
                               \o bytes),
         !.key = IF inPlace
                 THEN [arr |-> i.key.arr, off |-> i.key.off, len |-> n,
                       cap |-> n]
                 ELSE [arr |-> Len(i.mem) + 1, off |-> 0, len |-> n,
                       cap |-> n],
         !.val = SubSeq(data, value.next + unshared.v + 1,
                        value.next + unshared.v + value.v),
         !.nextOffset = value.next + unshared.v + value.v]

\* blockIter.decodeInternalKey (block.go:161-166)
decodeInternalKey(i) ==
  LET k == DecodeInternalKey(sliceBytes(i.mem, i.key)) IN
    [i EXCEPT !.ikey = IF globalSeqNum # 0 THEN SetSeqNum(k, globalSeqNum)
                       ELSE k]

\* blockIter.loadEntry (block.go:168-171)
loadEntry(data, i) == decodeInternalKey(readEntry(data, i))

\* blockIter.clearCache (block.go:173-176)
clearCache(i) ==
  [i EXCEPT !.cached = <<>>,
            !.cachedBuf = [arr |-> i.cachedBuf.arr, off |-> 0, len |-> 0,
                           cap |-> i.cachedBuf.cap]]

\* blockIter.cacheEntry (block.go:178-185): i.cachedBuf = append(i.cachedBuf,
\* i.key...), and the entry's key is the slice of i.cachedBuf that holds the
\* copy, with the capacity cut to its length.
cacheEntry(i) ==
  LET kb      == sliceBytes(i.mem, i.key)
      cb      == i.cachedBuf
      need    == cb.len + Len(kb)
      inPlace == need <= cb.cap
      arr     == IF inPlace THEN cb.arr ELSE Len(i.mem) + 1
      old     == IF cb.arr = 0 THEN <<>> ELSE SubSeq(i.mem[cb.arr], 1, cb.len)
  IN  [i EXCEPT
         !.mem = IF inPlace
                 THEN (IF kb = <<>> THEN i.mem
                       ELSE [i.mem EXCEPT ![cb.arr] =
                               writeAt(i.mem[cb.arr], cb.len, kb)])
                 ELSE Append(i.mem, old \o kb),
         !.cachedBuf = [arr |-> arr, off |-> 0, len |-> need,
                        cap |-> IF inPlace THEN cb.cap
                                ELSE growCap(cb.cap, need)],
         !.cached = Append(i.cached,
                           [offset |-> i.offset,
                            key |-> [arr |-> arr, off |-> cb.len,
                                     len |-> Len(kb), cap |-> Len(kb)],
                            val |-> i.val])]

\* blockIter.Valid (block.go:391-393)
Valid(i) == i.offset >= 0 /\ i.offset < i.restarts

\* blockIter.First (block.go:284-287)
First(data, i) == loadEntry(data, [i EXCEPT !.offset = 0])

\* blockIter.Next (block.go:309-316): the iterator it leaves.
Next_(data, i) ==
  LET j == [i EXCEPT !.offset = i.nextOffset] IN
    IF ~Valid(j) THEN j ELSE loadEntry(data, j)

\* The loop of Last and of Prev: read and cache the entries up to a target
\* offset.
RECURSIVE cacheUpTo(_, _, _)
cacheUpTo(data, i, target) ==
  IF i.nextOffset < target
  THEN cacheUpTo(data,
                 cacheEntry(readEntry(data, [i EXCEPT !.offset = i.nextOffset])),
                 target)
  ELSE i

\* blockIter.Last (block.go:290-305)
Last(data, i) ==
  LET j == [i EXCEPT !.offset = restartAt(data, i, i.numRestarts - 1)]
  IN  decodeInternalKey(
        cacheUpTo(data, cacheEntry(clearCache(readEntry(data, j))),
                  i.restarts))

\* sort.Search over the restart points, as in Prev (block.go:347-350): the
\* first restart point in [lo, hi) whose offset is >= the target offset.
RECURSIVE searchOffset(_, _, _, _, _)
searchOffset(data, i, target, lo, hi) ==
  IF lo >= hi THEN lo
  ELSE LET h == (lo + hi) \div 2 IN
       IF ~(restartAt(data, i, h) >= target)
       THEN searchOffset(data, i, target, h + 1, hi)
       ELSE searchOffset(data, i, target, lo, h)

\* blockIter.Prev (block.go:328-368): the iterator it leaves and what it
\* returns.
Prev(data, i) ==
  LET n == Len(i.cached) - 1 IN
    IF n > 0 /\ i.cached[n + 1].offset = i.offset
    THEN LET e == i.cached[n] IN
         [ok |-> TRUE,
          it |-> decodeInternalKey(
                   [i EXCEPT !.nextOffset = i.offset, !.offset = e.offset,
                             !.key = e.key, !.val = e.val,
                             !.cached = SubSeq(i.cached, 1, n)])]
    ELSE IF i.offset = 0
    THEN [ok |-> FALSE, it |-> [i EXCEPT !.offset = -1, !.nextOffset = 0]]
    ELSE LET index == searchOffset(data, i, i.offset, 0, i.numRestarts)
             j     == [i EXCEPT !.offset =
                         IF index > 0 THEN restartAt(data, i, index - 1)
                         ELSE 0]
         IN  [ok |-> TRUE,
              it |-> decodeInternalKey(
                       cacheUpTo(data,
                                 cacheEntry(clearCache(readEntry(data, j))),
                                 i.offset))]

\* sort.Search over the restart points, as in SeekGE (block.go:195-205): the
\* first restart point in [lo, hi) whose key is > the key sought.  The key
\* of a restart point is read behind the one byte of its shared length.
RECURSIVE searchKey(_, _, _, _, _)
searchKey(data, i, ikey, lo, hi) ==
  IF lo >= hi THEN lo
  ELSE LET h        == (lo + hi) \div 2
           unshared == decodeVarint(data, restartAt(data, i, h) + 1)
           value    == decodeVarint(data, unshared.next)
           s        == SubSeq(data, value.next + 1, value.next + unshared.v)
       IN  IF ~(InternalCompare(ikey, DecodeInternalKey(s)) < 0)
           THEN searchKey(data, i, ikey, h + 1, hi)
           ELSE searchKey(data, i, ikey, lo, h)

\* Mutant of seekStart: the scan starts at the restart point the search
\* found.
seekStartFound(data, i, index) ==
  restartAt(data, i, IF index < i.numRestarts THEN index
                     ELSE i.numRestarts - 1)

\* block.go:194, 211-213: the offset the scan of SeekGE starts from.
seekStart(data, i, index) ==
  IF index > 0 THEN restartAt(data, i, index - 1) ELSE 0

\* block.go:217-221: Next until the entry is >= the key sought.
RECURSIVE seekScan(_, _, _)
seekScan(data, i, ikey) ==
  IF Valid(i) /\ ~(InternalCompare(i.ikey, ikey) >= 0)
  THEN seekScan(data, Next_(data, i), ikey)
  ELSE i

\* blockIter.SeekGE (block.go:189-222)
SeekGE(data, i, key) ==
  LET ikey  == MakeSearchKey(key)
      index == searchKey(data, i, ikey, 0, i.numRestarts)
  IN  seekScan(data,
               loadEntry(data, [i EXCEPT !.offset = seekStart(data, i, index)]),
               ikey)

\* sort.Search over the restart points, as in SeekLT (block.go:232-242): the
\* first restart point in [lo, hi) whose key is >= the key sought.
RECURSIVE searchKeyLT(_, _, _, _, _)
searchKeyLT(data, i, ikey, lo, hi) ==
  IF lo >= hi THEN lo
  ELSE LET h        == (lo + hi) \div 2
           unshared == decodeVarint(data, restartAt(data, i, h) + 1)
           value    == decodeVarint(data, unshared.next)
           s        == SubSeq(data, value.next + 1, value.next + unshared.v)
       IN  IF ~(InternalCompare(ikey, DecodeInternalKey(s)) <= 0)
           THEN searchKeyLT(data, i, ikey, h + 1, hi)
           ELSE searchKeyLT(data, i, ikey, lo, h)

\* block.go:262-279: read and cache entries until one is >= the key sought,
\* then back up with Prev; or stop at the last entry of the block.
RECURSIVE seekLTScan(_, _, _)
seekLTScan(data, i, ikey) ==
  LET j == decodeInternalKey(readEntry(data, [i EXCEPT !.offset = i.nextOffset]))
  IN  IF InternalCompare(j.ikey, ikey) >= 0
      THEN Prev(data, j).it
      ELSE LET c == cacheEntry(j) IN
           IF c.nextOffset >= c.restarts THEN c
           ELSE seekLTScan(data, c, ikey)

\* blockIter.SeekLT (block.go:226-280)
SeekLT(data, i, key) ==
  LET ikey  == MakeSearchKey(key)
      index == searchKeyLT(data, i, ikey, 0, i.numRestarts)
  IN  IF index > 0
      THEN LET off == restartAt(data, i, index - 1) IN
           seekLTScan(data,
                      [clearCache(i) EXCEPT !.offset = off, !.nextOffset = off],
                      ikey)
      ELSE [i EXCEPT !.offset = -1, !.nextOffset = 0]

(***************************************************************************)
(* SpecBlock: a block is built from a sequence of entries in non-decreasing *)
(* order of the internal keys, and an iterator over it is moved.           *)
(***************************************************************************)
MaxEntries == 6
MaxRestartInterval == 3

\* The user keys and seqnums of the entries, and the keys sought.
UserKeys == {<<1>>, <<1, 2>>, <<2>>}
SeqNums == {1, 2}
SeekKeys == UserKeys \cup {<<>>, <<1, 1>>, <<1, 3>>, <<3>>}

InternalKeys ==
  {MakeInternalKey(u, s, InternalKeyKindSet) : u \in UserKeys, s \in SeqNums}

\* The sequences of n internal keys in non-decreasing order.
sortedKeys(n) ==
  {ks \in [1..n -> InternalKeys] :
     \A j \in 1..(n - 1) : InternalCompare(ks[j], ks[j + 1]) <= 0}

\* The entries with these keys: every second value is empty, the others
\* are one byte.
entriesOf(ks, p) ==
  [j \in 1..Len(ks) |->
     [key |-> ks[j], val |-> IF (j + p) % 2 = 0 THEN <<>> ELSE <<100 + j>>]]

scanIdle == [mode |-> "new", out |-> <<>>, key |-> <<>>]

\* The entry the iterator is at.
entryAt(i) == [key |-> i.ikey, val |-> i.val]

InitBlock ==
  /\ InitMemory
  /\ InitDisk
  /\ phase = "closed"
  /\ crashAt = noCrash
  /\ crashes = 0
  /\ failures = 0
  /\ com = <<>>
  /\ allocated = {}
  /\ applied = {}
  /\ returned = {}
  /\ recovered = {}
  /\ \E n \in 0..MaxEntries, r \in 1..MaxRestartInterval, p \in 0..1 :
       \E ks \in sortedKeys(n) :
         LET es   == entriesOf(ks, p)
             data == finish(addAll(newBlockWriter(r), es))
         IN  /\ block = [entries |-> es, restartInterval |-> r,
                         data |-> data]
             /\ iter = newBlockIter(data)
  /\ scan = scanIdle

\* What the block actions leave alone.
dbState == <<vsVars, diskVars, mu, logNum, pendingOutputs, la, job, readers,
             phase, nextVid, crashes, failures, handedOut, crashAt, dbVars>>

\* First
BlockFirst ==
  /\ scan.mode = "new"
  /\ LET i == First(block.data, iter) IN
       /\ iter' = i
       /\ scan' = [mode |-> IF Valid(i) THEN "forward" ELSE "forwardEnd",
                   out |-> IF Valid(i) THEN <<entryAt(i)>> ELSE <<>>,
                   key |-> <<>>]
  /\ UNCHANGED <<dbState, block>>

\* Next, while the iterator is valid.
BlockNext ==
  /\ scan.mode = "forward"
  /\ LET i == Next_(block.data, iter) IN
       /\ iter' = i
       /\ scan' = [mode |-> IF Valid(i) THEN "forward" ELSE "forwardEnd",
                   out |-> IF Valid(i) THEN Append(scan.out, entryAt(i))
                           ELSE scan.out,
                   key |-> <<>>]
  /\ UNCHANGED <<dbState, block>>

\* Last
BlockLast ==
  /\ scan.mode = "new"
  /\ LET i == Last(block.data, iter) IN
       /\ iter' = i
       /\ scan' = [mode |-> IF Valid(i) THEN "backward" ELSE "backwardEnd",
                   out |-> IF Valid(i) THEN <<entryAt(i)>> ELSE <<>>,
                   key |-> <<>>]
  /\ UNCHANGED <<dbState, block>>

\* Prev, until it returns false.
BlockPrev ==
  /\ scan.mode = "backward"
  /\ LET r == Prev(block.data, iter) IN
       /\ iter' = r.it
       /\ scan' = [mode |-> IF r.ok THEN "backward" ELSE "backwardEnd",
                   out |-> IF r.ok THEN Append(scan.out, entryAt(r.it))
                           ELSE scan.out,
                   key |-> <<>>]
  /\ UNCHANGED <<dbState, block>>

\* SeekGE(key)
BlockSeekGE ==
  /\ scan.mode = "new"
  /\ \E k \in SeekKeys :
       /\ iter' = SeekGE(block.data, iter, k)
       /\ scan' = [mode |-> "seekGE", out |-> <<>>, key |-> k]
  /\ UNCHANGED <<dbState, block>>

\* SeekLT(key)
BlockSeekLT ==
  /\ scan.mode = "new"
  /\ \E k \in SeekKeys :
       LET i == SeekLT(block.data, iter, k) IN
         /\ iter' = i
         /\ scan' = [mode |-> "seekLT",
                     out |-> IF Valid(i) THEN <<entryAt(i)>> ELSE <<>>,
                     key |-> k]
  /\ UNCHANGED <<dbState, block>>

\* One Next after SeekLT.
BlockSeekLTNext ==
  /\ scan.mode = "seekLT"
  /\ iter' = Next_(block.data, iter)
  /\ scan' = [scan EXCEPT !.mode = "seekLTNext"]
  /\ UNCHANGED <<dbState, block>>

\* Prev after SeekLT, while the iterator is valid.
BlockSeekLTPrev ==
  /\ scan.mode \in {"seekLT", "seekLTPrev"}
  /\ Valid(iter)
  /\ LET r == Prev(block.data, iter) IN
       /\ iter' = r.it
       /\ scan' = [scan EXCEPT
                     !.mode = IF r.ok THEN "seekLTPrev" ELSE "seekLTEnd",
                     !.out = IF r.ok THEN Append(scan.out, entryAt(r.it))
                             ELSE scan.out]
  /\ UNCHANGED <<dbState, block>>

\* A further Prev after Prev returned false and left the iterator before
\* the first entry.
BlockPrevExhausted ==
  /\ scan.mode \in {"backwardEnd", "seekLTEnd", "exhausted"}
  /\ iter.offset < 0
  /\ iter' = Prev(block.data, iter).it
  /\ scan' = [scan EXCEPT !.mode = "exhausted"]
  /\ UNCHANGED <<dbState, block>>

NextBlock ==
  \/ BlockFirst
  \/ BlockNext
  \/ BlockLast
  \/ BlockPrev
  \/ BlockSeekGE
  \/ BlockSeekLT
  \/ BlockSeekLTNext
  \/ BlockSeekLTPrev
  \/ BlockPrevExhausted

SpecBlock == InitBlock /\ [][NextBlock]_vars

\* C17 (as claimed): First followed by Next until the iterator is invalid
\* gives exactly the entries that were added, and Last followed by Prev
\* until Prev returns false gives exactly their reverse, for every restart
\* interval.
C17_RoundTrip ==
  /\ scan.mode = "forwardEnd" => scan.out = block.entries
  /\ scan.mode = "backwardEnd" => scan.out = reverse(block.entries)

\* The forward half of C17.
ForwardRoundTrip == scan.mode = "forwardEnd" => scan.out = block.entries

\* The index of the first entry whose user key is >= k; 0 when there is none.
firstGE(es, k) ==
  LET ge == {j \in 1..Len(es) : compareBytes(es[j].key.userKey, k) >= 0}
  IN  IF ge = {} THEN 0 ELSE CHOOSE j \in ge : \A h \in ge : j <= h

\* A linear scan for k: First, then Next until the entry is >= the search
\* key of k or the iterator is invalid.
linearScan(data, k) ==
  seekScan(data, First(data, newBlockIter(data)), MakeSearchKey(k))

\* The keys of the block are strictly increasing.
strictlyIncreasing(es) ==
  \A j \in 1..(Len(es) - 1) : InternalCompare(es[j].key, es[j + 1].key) < 0

\* C18: after SeekGE(k) on a block built from keys in increasing order,
\* with any restart interval, the iterator is at the first entry whose user
\* key is >= k (it yields that entry's key and value), or is invalid when
\* the block has no such entry; it is where a linear scan from the first
\* entry stops.
C18_SeekGE ==
  (scan.mode = "seekGE" /\ strictlyIncreasing(block.entries)) =>
    LET j   == firstGE(block.entries, scan.key)
        lin == linearScan(block.data, scan.key)
    IN  /\ Valid(iter) <=> j # 0
        /\ Valid(iter) => entryAt(iter) = block.entries[j]
        /\ Valid(lin) <=> Valid(iter)
        /\ lin.offset = iter.offset
        /\ Valid(lin) => entryAt(lin) = entryAt(iter)

\* A SeekGE that found an entry in the middle of a later restart interval,
\* so that the search skipped restart points and the scan skipped entries.
C18_Witness ==
  /\ scan.mode = "seekGE"
  /\ strictlyIncreasing(block.entries)
  /\ block.restartInterval >= 2
  /\ Valid(iter)
  /\ LET j == firstGE(block.entries, scan.key) IN
       /\ j > block.restartInterval
       /\ (j - 1) % block.restartInterval # 0
       /\ entryAt(iter) = block.entries[j]
       /\ block.entries[j].key.userKey # scan.key

\* An immutable memtable: in the queue with a newer memtable behind it.
immutable(m) ==
  \E j \in 1..(Len(queue) - 1) : queue[j] = m

\* A step of the running process.
runningStep == phase = "running" /\ phase' = "running"

\* C19 (as claimed): once a memtable is immutable no commitApply inserts a
\* record into it, also not a commit that got it as the mutable memtable
\* before the rotation.
C19_ImmutableFrozen ==
  [][runningStep =>
       \A m \in DOMAIN mem \cap DOMAIN mem' :
         immutable(m) => mem'[m].applied = mem[m].applied]_vars

\* C19 (amended): an immutable memtable is frozen once its reference count
\* is zero, that is once every commit that prepared a batch in it has
\* applied it: from then on no record is inserted into it and it is not
\* referenced again, and only such a memtable is read by the flush.  (A
\* commit that prepared its batch before the rotation still inserts after
\* it, holding a reference.)
C19_UnreferencedFrozen ==
  /\ [][runningStep =>
          \A m \in DOMAIN mem \cap DOMAIN mem' :
            (immutable(m) /\ mem[m].refs = 0) => mem'[m] = mem[m]]_vars
  /\ []((phase = "running" /\ fl.pc \in {"write", "written", "applying"}) =>
          /\ immutable(fl.mem)
          /\ mem[fl.mem].refs = 0
          /\ \A p \in Committers :
               com[p].pc = "apply" => com[p].mem # fl.mem)

\* The flush reads an immutable, unreferenced memtable that holds a batch
\* of two records, while a commit is in the middle of applying its batch
\* to the mutable memtable.
C19_Witness ==
  /\ phase = "running"
  /\ fl.pc = "write"
  /\ immutable(fl.mem)
  /\ mem[fl.mem].refs = 0
  /\ \E b \in allocated :
       b.count = 2 /\ {b.base, b.base + 1} \subseteq mem[fl.mem].applied
  /\ \E p \in Committers :
       /\ com[p].pc = "apply"
       /\ com[p].mem = mutable
       /\ com[p].n = 1
       /\ com[p].count = 2

\* The version a Get captured.
capturedVersion(r) == versions[indexOf(versions, readers[r].version)]

\* The table of the running flush is written and its edit is on the way:
\* between the return of writeLevel0Table and the end of the flush.
flushInstalling ==
  phase = "running" /\ fl.pc \in {"written", "applying"} /\ ~fl.err

\* C20: a Get that captured the visible seqnum, the current version and the
\* memtable queue in one critical section, before, during or after a flush,
\* finds every record below its snapshot in a captured memtable or in a
\* table of the captured version.  From the moment its L0 table is written
\* until the flush ends the flushed memtable is the head of the queue, and
\* the step that takes it out of the queue is taken when the version that
\* contains the table is current and the table holds the memtable's records.
C20_FlushKeepsRecordsReadable ==
  /\ [](\A r \in Readers :
          readers[r].pc = "reading" =>
            /\ indexOf(versions, readers[r].version) # 0
            /\ \A s \in 0..(readers[r].snapshot - 1) :
                 s \in memRecords(readers[r].memtables) \cup
                       tableRecords(capturedVersion(r).files))
  /\ [](flushInstalling => (queue # <<>> /\ queue[1] = fl.mem))
  /\ [][(runningStep /\ queue # <<>> /\
           (queue' = <<>> \/ queue'[1] # queue[1])) =>
          /\ <<0, fl.fileNum>> \in currentVersion.files
          /\ fl.fileNum \in DOMAIN tables
          /\ mem[queue[1]].applied \subseteq tables[fl.fileNum]
          /\ queue' = Tail(queue)]_vars

\* A Get is reading while the table of the flush is written and the edit is
\* not installed: it captured the flushed memtable, which holds a record
\* below its snapshot, and a version that does not contain the table.
C20_Witness ==
  \E r \in Readers :
    /\ readers[r].pc = "reading"
    /\ flushInstalling
    /\ la.pc = "sync"
    /\ fl.fileNum \in DOMAIN tables
    /\ <<0, fl.fileNum>> \notin capturedVersion(r).files
    /\ readers[r].memtables # <<>>
    /\ readers[r].memtables[1] = fl.mem
    /\ \E s \in mem[fl.mem].applied :
         /\ s < readers[r].snapshot
         /\ s \notin tableRecords(capturedVersion(r).files)

\* The batches prepared in memtable m whose commitApply is not through.
applying(m) == {p \in Committers : com[p].pc = "apply" /\ com[p].mem = m}

\* C21 (as claimed): a memtable a Get captured and still reads holds a
\* reference of that Get, so its reference count is not zero.
C21_ReadersHoldMemtables ==
  \A r \in Readers :
    (phase = "running" /\ readers[r].pc = "reading") =>
      \A j \in 1..Len(readers[r].memtables) :
        mem[readers[r].memtables[j]].refs >= 1

\* C21 (amended): Get references the current version only.  The capture
\* leaves the reference count of every memtable as it is; the count of a
\* memtable is one for the mutable slot plus one per batch prepared in it and
\* not yet applied, whatever the readers hold; and every memtable a Get
\* captured stays readable for it, with the records it held at the capture.
C21_ReadersTakeNoMemtableRef ==
  /\ [][\A r \in Readers :
          (readers[r].pc = "idle" /\ readers'[r].pc = "reading") =>
            mem' = mem]_vars
  /\ [](phase = "running" =>
          \A m \in DOMAIN mem :
            mem[m].refs = (IF queue # <<>> /\ m = mutable THEN 1 ELSE 0)
                          + Cardinality(applying(m)))
  /\ [][runningStep =>
          \A r \in Readers :
            (readers[r].pc = "reading" /\ readers'[r].pc = "reading") =>
              \A j \in 1..Len(readers[r].memtables) :
                LET m == readers[r].memtables[j] IN
                  /\ m \in DOMAIN mem'
                  /\ mem[m].applied \subseteq mem'[m].applied]_vars

\* A Get still reads a memtable that reached reference count zero, was
\* flushed and has left the queue; the memtable holds a record below the
\* Get's snapshot.
C21_Witness ==
  \E r \in Readers :
    /\ phase = "running"
    /\ readers[r].pc = "reading"
    /\ readers[r].memtables # <<>>
    /\ LET m == readers[r].memtables[1] IN
         /\ mem[m].refs = 0
         /\ \A j \in 1..Len(queue) : queue[j] # m
         /\ \E s \in mem[m].applied : s < readers[r].snapshot

(***************************************************************************)
(* DB.Flush (db.go:413-423) beside the committers: a goroutine either      *)
(* commits a batch or calls Flush.                                         *)
(***************************************************************************)
\* db.go:414-416: Flush takes DB.mu, captures d.mu.mem.mutable and enters
\* makeRoomForWrite(nil), whose first iteration is forced.
FlushCall(p) ==
  /\ phase = "running"
  /\ mu = "none"
  /\ com[p].pc = "idle"
  /\ com' = [com EXCEPT ![p] =
                 [comIdle EXCEPT !.nil = TRUE, !.force = TRUE,
                                 !.mem = mutable, !.pc = "room"]]
  /\ mu' = holder(p)
  /\ UNCHANGED <<versions, logNumber, prevLogNumber, nextFileNumber, logSeqNum,
                   visibleSeqNum, manifestFileNumber, manifest, current,
                   manifests, tables, logNum, pendingOutputs, la, job,
                   readers, phase, nextVid, crashes, failures, handedOut,
                   crashAt, mem, queue, switching, wal, flushing, fl,
                   allocated, applied, returned, recovered, closed,
                   closeCount, closer, block, iter, scan>>

\* db.go:421-422: <-mem.flushed; Flush returns once the memtable it
\* captured has been flushed and has left the queue.
FlushReturn(p) ==
  /\ phase = "running"
  /\ com[p].pc = "flushWait"
  /\ \A j \in 1..Len(queue) : queue[j] # com[p].mem
  /\ com' = [com EXCEPT ![p] = comIdle]
  /\ UNCHANGED <<versions, logNumber, prevLogNumber, nextFileNumber, logSeqNum,
                   visibleSeqNum, manifestFileNumber, manifest, current,
                   manifests, tables, mu, logNum, pendingOutputs, la, job,
                   readers, phase, nextVid, crashes, failures, handedOut,
                   crashAt, mem, queue, switching, wal, flushing, fl,
                   allocated, applied, returned, recovered, closed,
                   closeCount, closer, block, iter, scan>>

NextFlush ==
  \/ \E p \in Committers : CommitBegin(p)
  \/ \E p \in Committers : FlushCall(p)
  \/ \E p \in Committers : Relock(p)
  \/ \E p \in Committers : MakeRoom(p)
  \/ \E p \in Committers : RotateIO(p)
  \/ \E p \in Committers : RotateFinish(p)
  \/ \E p \in Committers : CommitApply(p)
  \/ \E p \in Committers : CommitSchedule(p)
  \/ \E p \in Committers : SyncGet(p)
  \/ \E p \in Committers : SyncDo(p)
  \/ \E p \in Committers : Publish(p)
  \/ \E p \in Committers : FlushReturn(p)
  \/ FlushBegin
  \/ WL0Write
  \/ WL0Cleanup
  \/ WL0Return
  \/ logAndApply
  \/ FlushFinish

SpecFlush == Init /\ [][NextFlush]_vars

\* C23: a rotation starts (a log number is allocated and switching is set)
\* only with fewer than MemTableStopWritesThreshold memtables in the queue
\* and at most L0StopWritesThreshold L0 tables in the current version;
\* makeRoomForWrite waits otherwise.  The queue never holds more than
\* MemTableStopWritesThreshold memtables, whatever writers, Flush calls and
\* flushes do.
C23_StopWrites ==
  /\ [][(~switching /\ switching') =>
          /\ Len(queue) < MemTableStopWritesThreshold
          /\ l0Files <= L0StopWritesThreshold
          /\ nextFileNumber' = nextFileNumber + 1]_vars
  /\ [](phase = "running" => Len(queue) <= MemTableStopWritesThreshold)
  /\ [][\A p \in Committers :
          (com[p].pc = "room" /\ ~switching /\ stopWrites
             /\ com'[p].pc # "room") =>
            com'[p].pc \in {"wait", "apply", "flushWait"}]_vars

\* The queue is full and a Flush call waits in makeRoomForWrite: its forced
\* rotation did not start.
C23_Witness ==
  /\ phase = "running"
  /\ ~switching
  /\ Len(queue) = MemTableStopWritesThreshold
  /\ \E p \in Committers :
       com[p].pc = "wait" /\ com[p].nil /\ com[p].force

\* C24 (as claimed): while switching is true no other operation uses
\* mem.mutable or log.LogWriter: no batch is appended to the WAL, commitSync
\* does not take the log writer, Close does not close it, Flush does not
\* capture mem.mutable, and no second rotation starts.
C24_SwitchingExcludes ==
  [][(phase = "running" /\ switching) =>
       /\ \A n \in DOMAIN wal \cap DOMAIN wal' :
            Len(wal'[n].recs) <= Len(wal[n].recs)
       /\ \A p \in Committers :
            /\ ~(com[p].pc = "sync" /\ com'[p].pc = "syncing")
            /\ ~(com[p].pc = "idle" /\ com'[p].nil)
            /\ ~(com[p].pc # "rotating" /\ com'[p].pc = "rotating")
       /\ closeCount' = closeCount]_vars

\* C25: the reference count of a memtable drops to zero once and stays
\* zero; the unref that takes it there is followed by maybeScheduleFlush (in
\* the rotation itself, or by the committer whose commitApply did the unref)
\* and no other unref is; at that moment a rotation has replaced the memtable
\* as the mutable one and no batch prepared in it is still to apply.  A flush
\* is never scheduled for a memtable with an apply in flight.
C25_ScheduledOnLastUnref ==
  /\ [][runningStep =>
          /\ \A m \in DOMAIN mem \cap DOMAIN mem' :
               /\ mem[m].refs = 0 => mem'[m].refs = 0
               /\ (mem[m].refs > 0 /\ mem'[m].refs = 0) =>
                    /\ \E j \in 1..(Len(queue') - 1) : queue'[j] = m
                    /\ \A p \in Committers :
                         ~(com'[p].pc = "apply" /\ com'[p].mem = m)
                    /\ \/ \E p \in Committers :
                            /\ com[p].pc = "rotated"
                            /\ com'[p].pc = "room"
                            /\ queue[Len(queue)] = m
                            /\ flushing' = (flushing \/
                                              shouldFlush(queue', mem', flushing))
                       \/ \E p \in Committers :
                            /\ com[p].pc = "apply"
                            /\ com[p].mem = m
                            /\ com'[p].pc = "schedule"
          /\ \A p \in Committers :
               (com[p].pc # "schedule" /\ com'[p].pc = "schedule") =>
                 /\ mem[com[p].mem].refs = 1
                 /\ mem'[com[p].mem].refs = 0]_vars
  /\ []((phase = "running" /\ flushing /\ fl.pc = "start") =>
          /\ Len(queue) > 1
          /\ mem[queue[1]].refs = 0
          /\ applying(queue[1]) = {})

\* The commitApply of a batch that was prepared before the rotation did the
\* unref that took the immutable memtable to zero, and the committer is
\* about to call maybeScheduleFlush; no flush is running.
C25_Witness ==
  \E p \in Committers :
    /\ phase = "running"
    /\ com[p].pc = "schedule"
    /\ immutable(com[p].mem)
    /\ mem[com[p].mem].refs = 0
    /\ mem[com[p].mem].applied # {}
    /\ ~flushing

(***************************************************************************)
(* writeLevel0Table and pendingOutputs (db.go:442-535).                    *)
(***************************************************************************)
\* writeLevel0Table is between its Unlock and its return.
writingTable == phase = "running" /\ fl.pc \in {"write", "failed", "written"}

\* writeLevel0Table returns to the flush.
tableReturn ==
  /\ writingTable
  /\ fl.pc = "written"
  /\ phase' = "running"
  /\ fl'.pc # "written"

\* C26: writeLevel0Table puts the new file number into pendingOutputs in the
\* step that still holds DB.mu, and the number stays there during the whole
\* write, which runs without DB.mu; the return takes DB.mu again in every
\* case; after an error the number has left pendingOutputs, no file of that
\* number is on disk and the metadata is zero; after a nil return the number
\* is still in pendingOutputs and the metadata names the written file.
C26_PendingOutputs ==
  /\ [](writingTable => (fl.fileNum \in pendingOutputs /\ mu # "flush"))
  /\ []((writingTable /\ fl.pc = "written") => (fl.err <=> fl.meta = 0))
  /\ [][(phase = "running" /\ fl.pc = "start" /\ fl'.pc = "write") =>
          /\ mu = "none"
          /\ fl'.fileNum \notin handedOut
          /\ fl'.fileNum \in pendingOutputs'
          /\ fl'.meta = fl'.fileNum]_vars
  /\ [][tableReturn =>
          /\ mu = "none"
          /\ IF fl.err
             THEN /\ fl.fileNum \notin pendingOutputs'
                  /\ fl.fileNum \notin DOMAIN tables'
                  /\ fl.meta = 0
             ELSE /\ fl.fileNum \in pendingOutputs'
                  /\ mu' = "flush"
                  /\ fl.meta = fl.fileNum
                  /\ fl.fileNum \in DOMAIN tables'
                  /\ tables'[fl.fileNum] = tableContents(fl.mem)]_vars

\* tw.Add failed after the file was created with a part of the memtable:
\* the file is on disk, the number is in pendingOutputs, and the deferred
\* cleanup and the return are to come.
C26_Witness ==
  /\ phase = "running"
  /\ fl.pc = "failed"
  /\ fl.err
  /\ fl.fileNum \in DOMAIN tables
  /\ tables[fl.fileNum] # {}
  /\ tables[fl.fileNum] # tableContents(fl.mem)
  /\ fl.fileNum \in pendingOutputs

(***************************************************************************)
(* logAndApply after an error (version_set.go:146-245).                    *)
(***************************************************************************)
\* A logAndApply call is between its entry and its return.
inLogAndApply == phase = "running" /\ la.pc \notin {"idle", "ret"}

\* The step is the one in which logAndApply returns nil.
returnsNil == la'.pc = "ret" /\ ~la'.err

\* C27: no step of logAndApply but the one that returns nil changes the
\* version list, log_number, prev_log_number or next_file_number, and while
\* the call runs no step of anyone changes the three numbers or which
\* Version is current and what files it has (a reader's unref may change a
\* reference count); so a call that returns an error, at whichever step,
\* leaves them as they were before the call (next_file_number is the one
\* stamped into the edit at entry).  When createManifest fails, no file of
\* the manifest's number is on disk and the version set has no manifest
\* writer.
C27_ErrorLeavesVersionSet ==
  /\ [][(phase = "running" /\ phase' = "running" /\ la' # la
           /\ ~returnsNil) =>
          UNCHANGED <<versions, logNumber, prevLogNumber,
                      nextFileNumber>>]_vars
  /\ [][(inLogAndApply /\ phase' = "running" /\ ~returnsNil) =>
          /\ UNCHANGED <<logNumber, prevLogNumber, nextFileNumber>>
          /\ currentVersion'.id = currentVersion.id
          /\ currentVersion'.files = currentVersion.files]_vars
  /\ []((phase = "running" /\ la.pc = "ret" /\ la.err) =>
          la.ve.nextFileNumber = nextFileNumber)
  /\ [][(inLogAndApply /\ la.pc = "manifest" /\ manifest = "nil"
           /\ la'.pc = "ret" /\ la'.err) =>
          /\ manifest' = "nil"
          /\ manifestFileNumber \notin DOMAIN manifests']_vars

\* logAndApply returned an error after the record reached the manifest
\* file: the edit adds a file the current Version does not have.
C27_Witness ==
  /\ phase = "running"
  /\ la.pc = "ret"
  /\ la.err
  /\ la.ve.newFiles # {}
  /\ ~(la.ve.newFiles \subseteq currentVersion.files)
  /\ manifest = "open"
  /\ manifests[manifestFileNumber].written > 1

(***************************************************************************)
(* SeekLT (block.go:226-280), checked under SpecBlock.                     *)
(***************************************************************************)
\* The index of the last entry whose user key is < k; 0 when there is none.
lastLT(es, k) ==
  LET lt == {j \in 1..Len(es) : compareBytes(es[j].key.userKey, k) < 0}
  IN  IF lt = {} THEN 0 ELSE CHOOSE j \in lt : \A h \in lt : j >= h

\* SeekLT(k) left the iterator at the last entry with user key < k, or
\* invalid before the first entry (a block without entries has no place
\* before the first one: the iterator is invalid at offset 0).
SeekLTPosition ==
  (scan.mode = "seekLT" /\ strictlyIncreasing(block.entries)) =>
    LET j == lastLT(block.entries, scan.key) IN
      /\ Valid(iter) <=> j # 0
      /\ Valid(iter) => entryAt(iter) = block.entries[j]
      /\ ~Valid(iter) => (iter.offset = -1 \/ block.entries = <<>>)

\* The Next after SeekLT(k) is at the entry SeekGE(k) finds.
SeekLTThenNext ==
  (scan.mode = "seekLTNext" /\ strictlyIncreasing(block.entries)) =>
    LET j  == firstGE(block.entries, scan.key)
        ge == SeekGE(block.data, newBlockIter(block.data), scan.key)
    IN  /\ Valid(iter) <=> j # 0
        /\ Valid(iter) => entryAt(iter) = block.entries[j]
        /\ Valid(iter) <=> Valid(ge)
        /\ Valid(iter) => (iter.offset = ge.offset /\ entryAt(iter) = entryAt(ge))

\* The Prev calls after SeekLT(k) visit the entries before it in reverse
\* order, down to the first, and then Prev returns false.
SeekLTThenPrev ==
  (scan.mode \in {"seekLTPrev", "seekLTEnd"}
     /\ strictlyIncreasing(block.entries)) =>
    LET j == lastLT(block.entries, scan.key) IN
      /\ Len(scan.out) <= j
      /\ \A h \in 1..Len(scan.out) : scan.out[h] = block.entries[j + 1 - h]
      /\ scan.mode = "seekLTEnd" => Len(scan.out) = j

\* C28: for every block built from keys in increasing order, every restart
\* interval and every user key k, SeekLT(k) leaves the iterator at the last
\* entry whose user key is < k, or invalid before the first entry when
\* there is none; a following Next moves to the entry SeekGE(k) finds; the
\* following Prev calls visit the preceding entries in reverse order.
C28_SeekLT == SeekLTPosition /\ SeekLTThenNext /\ SeekLTThenPrev


\* SeekLT left the iterator in the middle of a restart interval after it
\* read an entry >= the search key and backed up, and further Prev calls
\* went back across a restart point.
SeekLTWitness ==
  /\ scan.mode = "seekLTPrev"
  /\ strictlyIncreasing(block.entries)
  /\ block.restartInterval >= 2
  /\ Len(scan.out) >= 3
  /\ lastLT(block.entries, scan.key) < Len(block.entries)

(***************************************************************************)
(* Retirement of WAL files by the flush edit (spec.md 4.7).                *)
(***************************************************************************)
\* The batches whose record went to a WAL file numbered below n.
writtenBelow(n) == {a \in allocated : a.log < n}

\* C29: whenever the version set's log number is L, set by the flush edit
\* that was applied last, every record that was written to a WAL file
\* numbered below L is in a table of the current Version, whatever the
\* length of the queue.
C29_RetirementSafe ==
  phase = "running" =>
    \A a \in writtenBelow(logNumber) :
      seqNums(a.base, a.count) \subseteq tableRecords(currentVersion.files)

(***************************************************************************)
(* The order of commits (db.go:265-282, spec.md 4.5).                      *)
(***************************************************************************)
\* The place of a batch's record in a WAL file; 0 when it is not there.
walIndex(recs, base) ==
  LET at == {j \in 1..Len(recs) : recs[j].base = base}
  IN  IF at = {} THEN 0 ELSE CHOOSE j \in at : TRUE

\* In a sequence of memtables every record of an older memtable has a lower
\* seqnum than every record of a newer one.
newestHasHighest(q) ==
  \A i, j \in 1..Len(q) :
    i < j => \A s \in mem[q[i]].applied, t \in mem[q[j]].applied : s < t

beforeFirst ==
  scan.mode \in {"backwardEnd", "seekLTEnd", "exhausted"} /\ iter.offset < 0

\* After Prev returned false the iterator is invalid, with offset -1 and
\* the first entry as the one Next loads.
ExhaustedIsInvalid ==
  beforeFirst => (~Valid(iter) /\ iter.offset = -1 /\ iter.nextOffset = 0)

\* C32: once Prev has returned false the iterator is invalid, and every
\* further Prev returns false and leaves it invalid.
C32_ExhaustionStable ==
  /\ [](beforeFirst => ~Valid(iter))
  /\ [][(beforeFirst /\ scan'.mode = "exhausted") =>
          /\ ~Prev(block.data, iter).ok
          /\ ~Valid(iter')]_vars

(***************************************************************************)
(* Termination of makeRoomForWrite (db.go:553-622): committers commit      *)
(* batches of any size or call Flush, flushes run, nothing crashes, and    *)
(* every step that can be taken is taken in the end.                       *)
(***************************************************************************)
\* The record count of a batch that does not fit into an empty memtable.
oversized == MemTableSize + 1

\* Commit of a batch that is larger than a memtable; as CommitBegin.
CommitBeginBig(p) ==
  /\ phase = "running"
  /\ mu = "none"
  /\ com[p].pc = "idle"
  /\ ~closed
  /\ logSeqNum + sumPending(Committers) + oversized <= MaxSeqNum
  /\ com' = [com EXCEPT ![p] =
                 [comIdle EXCEPT !.count = oversized, !.sync = Sync(p),
                  !.pc = IF l0Files <= L0SlowdownWritesThreshold
                         THEN "room" ELSE "sleep"]]
  /\ mu' = IF l0Files <= L0SlowdownWritesThreshold THEN holder(p) ELSE "none"
  /\ UNCHANGED <<versions, logNumber, prevLogNumber, nextFileNumber, logSeqNum,
                   visibleSeqNum, manifestFileNumber, manifest, current,
                   manifests, tables, logNum, pendingOutputs, la, job,
                   readers, phase, nextVid, crashes, failures, handedOut,
                   crashAt, mem, queue, switching, wal, flushing, fl,
                   allocated, applied, returned, recovered, closed,
                   closeCount, closer, block, iter, scan>>

NextLive ==
  \/ \E p \in Committers : CommitBegin(p)
  \/ \E p \in Committers : CommitBeginBig(p)
  \/ \E p \in Committers : FlushCall(p)
  \/ \E p \in Committers : Relock(p)
  \/ \E p \in Committers : MakeRoom(p)
  \/ \E p \in Committers : RotateIO(p)
  \/ \E p \in Committers : RotateFinish(p)
  \/ \E p \in Committers : CommitApply(p)
  \/ \E p \in Committers : CommitSchedule(p)
  \/ \E p \in Committers : SyncGet(p)
  \/ \E p \in Committers : SyncDo(p)
  \/ \E p \in Committers : Publish(p)
  \/ \E p \in Committers : FlushReturn(p)
  \/ FlushBegin
  \/ WL0Write
  \/ WL0Cleanup
  \/ WL0Return
  \/ logAndApply
  \/ FlushFinish

\* Fair scheduling: a goroutine that can take a step without DB.mu takes
\* it, one that needs DB.mu gets it when it is free again and again, and
\* the flush keeps running.
FairLive ==
  /\ \A p \in Committers :
       /\ SF_vars(Relock(p))
       /\ WF_vars(MakeRoom(p))
       /\ WF_vars(RotateIO(p))
       /\ SF_vars(RotateFinish(p))
       /\ WF_vars(CommitApply(p))
       /\ SF_vars(CommitSchedule(p))
       /\ SF_vars(SyncGet(p))
       /\ WF_vars(SyncDo(p))
       /\ WF_vars(Publish(p))
       /\ WF_vars(FlushReturn(p))
  /\ SF_vars(FlushBegin)
  /\ WF_vars(WL0Write)
  /\ WF_vars(WL0Cleanup)
  /\ SF_vars(WL0Return)
  /\ WF_vars(logAndApply)
  /\ WF_vars(FlushFinish)

SpecLive == Init /\ [][NextLive]_vars /\ FairLive

\* The goroutine is in makeRoomForWrite (the loop, a wait or a rotation).
inMakeRoom(p) ==
  phase = "running" /\ com[p].pc \in {"room", "wait", "rotating", "rotated"}

\* The model has no file number left for a new WAL or a new table.
outOfFileNumbers == nextFileNumber > MaxDBFileNum

\* The call is for b == nil or for a batch that fits an empty memtable.
fits(p) == com[p].nil \/ com[p].count <= MemTableSize

OversizedNeverReturns ==
  /\ \A a \in allocated : a.count <= MemTableSize
  /\ \A p \in Committers :
       (com[p].pc # "idle" /\ ~com[p].nil /\ com[p].count > MemTableSize) =>
         com[p].pc \in {"sleep", "room", "wait", "rotating", "rotated"}

====
